---- MODULE Spec2Model ----
(***************************************************************************)
(* A model of the Jenkins interaction engine of jk (jenkins-cli):          *)
(*   - the HTTP engine's crumb handling (internal/jenkins/client.go),      *)
(*   - the progressive log follower (pkg/cmd/shared/log_stream.go),        *)
(*   - the trigger-follow machine monitorRun (pkg/cmd/run),                *)
(*   - the run list pipeline processRunList with its cursors.              *)
(* Each component has its own specification; the variables of the other    *)
(* components stay at their initial value.                                 *)
(***************************************************************************)
EXTENDS Integers, Sequences, FiniteSets, TLC

VARIABLES
    \* the HTTP engine (jenkins.Client)
    crumb,            \* Client.crumb: the cached crumb, or NoCrumb
    crumbUnsupported, \* Client.crumbUnsupported
    crumbMu,          \* Client.crumbMu: 0 when free, else the task holding it
    task,             \* per task: the Do() call it is in
    issuer,           \* history: the requests made to the crumb issuer
    \* the build on the Jenkins server
    logLen,        \* length of the build's console log
    logGen,        \* how often the console log was truncated and restarted
    building,      \* the build's "building" flag
    result,        \* the build's raw "result" string
    \* monitorRun and its log follower
    streamLogs,    \* monitorRun's streamLogs argument
    ctxDone,       \* cmd.Context() is cancelled
    logCtxDone,    \* logCtx is cancelled (cancel() or its parent)
    logErrCh,      \* the buffered channel logErrCh (capacity 1)
    follower,      \* the goroutine running StreamProgressiveLog
    monitor,       \* the goroutine running monitorRun
    out,           \* what was written to cmd.OutOrStdout(), in order
    logClean,      \* history: the log was only appended to since the follower
                   \* started or last restarted at offset 0
    \* jk run ls
    builds,        \* the builds of the job on the server, by build number
    session,       \* a pagination session: the first call and its next pages
    last,          \* the most recent run ls call with its output
    \* jk run params
    parser,        \* parseParametersFromConfig: its locals while it reads
    collector,     \* the metadataCollector of a run ls call and its metadata
    \* jk run start --follow
    item,          \* the queue item on the server
    waiter,        \* waitForBuildNumber: its position, clock and result
    cmdExit,       \* what followTriggeredRun returned: the command's exit
    \* jk log without --follow
    snap,          \* CollectLogSnapshot: its locals, its sink and its result
    \* Client.Capabilities
    capabilities,  \* c.capabilities: the capabilities of the last probe round
    lastCapProbe,  \* c.lastCapProbe: when that round was stored
    capMu,         \* c.capMu: the task holding the write lock, or 0
    wallClock,     \* the time, in ticks
    capCall,       \* per task: the Capabilities() call it is in
    \* job discovery (jk search)
    jobTree,       \* the server: the jobs listed under each folder path
    disc,          \* discoverJobs: its inputs, its walk, its results
    \* the config store: the contexts by name, the name of the active one and
    \* the last operation on the store with its outcome
    Contexts, Active, lastOp,
    \* functions called on their own
    calls          \* the calls made so far, each with its input and output

followVars == <<logLen, logGen, building, result, streamLogs, ctxDone,
                logCtxDone, logErrCh, follower, monitor, out, logClean>>

httpVars == <<crumb, crumbUnsupported, crumbMu, task, issuer>>

runVars == <<builds, session, last>>

paramVars == <<parser, collector>>

triggerVars == <<item, waiter, cmdExit>>

pureVars == <<calls>>

snapVars == <<snap>>

capVars == <<capabilities, lastCapProbe, capMu, wallClock, capCall>>

discVars == <<jobTree, disc>>

configVars == <<Contexts, Active, lastOp>>

vars ==
    <<followVars, httpVars, runVars, paramVars,
      triggerVars, snapVars, capVars, discVars,
      configVars, pureVars>>

\* what the actions of one component leave alone
notHttp ==
    <<followVars, runVars, paramVars, triggerVars,
      snapVars, capVars, discVars, configVars,
      pureVars>>

notFollow ==
    <<httpVars, runVars, paramVars, triggerVars,
      snapVars, capVars, discVars, configVars,
      pureVars>>

notRun ==
    <<followVars, httpVars, paramVars, triggerVars,
      snapVars, capVars, discVars, configVars,
      pureVars>>

notParam ==
    <<followVars, httpVars, runVars, triggerVars,
      snapVars, capVars, discVars, configVars,
      pureVars>>

notTrigger ==
    <<followVars, httpVars, runVars, paramVars,
      snapVars, capVars, discVars, configVars,
      pureVars>>

notSnapshot ==
    <<followVars, httpVars, runVars, paramVars,
      triggerVars, capVars, discVars, configVars,
      pureVars>>

notCaps ==
    <<followVars, httpVars, runVars, paramVars,
      triggerVars, snapVars, discVars, configVars,
      pureVars>>

notDisc ==
    <<followVars, httpVars, runVars, paramVars,
      triggerVars, snapVars, capVars, configVars,
      pureVars>>

notConfig ==
    <<followVars, httpVars, runVars, paramVars,
      triggerVars, snapVars, capVars, discVars,
      pureVars>>

notPure ==
    <<followVars, httpVars, runVars, paramVars,
      triggerVars, snapVars, capVars, discVars,
      configVars>>

notFollowNorTrigger ==
    <<httpVars, runVars, paramVars, snapVars,
      capVars, discVars, configVars, pureVars>>

----------------------------------------------------------------------------
(* Bounds of the model *)

MaxLog == 2          \* the console log grows to at most MaxLog bytes per generation
MaxRotations == 1    \* the console log is truncated at most MaxRotations times
MaxHeartbeats == 1   \* "still running" notices recorded in out
NumTasks == 2        \* tasks sharing one Client

\* raw result strings the status endpoint serves
Results == {"FAILURE", "unstable", ""}

\* strings.ToUpper on the strings above
ToUpper(s) ==
    CASE s = "unstable" -> "UNSTABLE"
      [] s = "failure"  -> "FAILURE"
      [] s = "Success"  -> "SUCCESS"
      [] s = "not_built" -> "NOT_BUILT"
      [] OTHER          -> s

----------------------------------------------------------------------------
(* The HTTP engine: Client.Do, execute, ensureCrumb, clearCrumb *)

\* a nil error
NoError == "nil"

Tasks == 1..NumTasks

NoCrumb == [Field |-> "", Value |-> ""]

\* methods of the requests the tasks issue
Methods == {"GET", "POST", "delete"}

\* strings.ToUpper on the methods above
MethodUpper(m) == IF m = "delete" THEN "DELETE" ELSE m

\* statuses the server answers a request with
Statuses == {200, 401, 403, 500}

\* what the crumb issuer answers: a transport error, or a status with the
\* crumbResponse decoded from the body
CrumbAnswers ==
    {[status |-> 0, crumb |-> "", field |-> ""]}
    \cup {[status |-> 200, crumb |-> c, field |-> f] :
             c \in {"", "c1"}, f \in {"", "Jenkins-Crumb"}}
    \cup {[status |-> st, crumb |-> "", field |-> ""] : st \in {404, 405, 500}}

needsCrumb(method) == MethodUpper(method) \in {"POST", "PUT", "PATCH", "DELETE"}

\* the statuses execute retries on (client.go: http.StatusForbidden)
RetryStatus(status) == status = 403

IdleTask == [pc |-> "idle", method |-> "", allowRetry |-> FALSE, hdr |-> NoCrumb,
             execs |-> 0, first |-> 0, firstSent |-> FALSE, ret |-> [status |-> 0, err |-> NoError]]

SetTask(t, r) == task' = [task EXCEPT ![t] = r]

\* Client.Do(req, method, path, result): execute(req, method, path, true)
\* history of the crumb issuer: how many fetches were sent to it (2 stands
\* for two or more) and whether one of them was answered without a crumb
\* and without 404/405; not kept once a rejected request cleared the crumb
NoFetch == [fetches |-> 0, failed |-> FALSE, counted |-> TRUE]

NotCounted == [fetches |-> 0, failed |-> FALSE, counted |-> FALSE]

Asked(h) == IF h.counted THEN [h EXCEPT !.fetches = (IF @ >= 1 THEN 2 ELSE 1)] ELSE h

\* the answers after which ensureCrumb neither caches a crumb nor marks the
\* issuer unsupported
Uncached(a) ==
    ~(a.status = 200 /\ a.crumb # "" /\ a.field # "") /\ a.status \notin {404, 405}

Answered(h, a) ==
    IF h.counted /\ Uncached(a) THEN [h EXCEPT !.failed = TRUE] ELSE h

Do(t, m) ==
    /\ task[t].pc = "idle"
    /\ SetTask(t, [IdleTask EXCEPT !.pc = IF needsCrumb(m) THEN "ensure" ELSE "exec",
                                   !.method = m, !.allowRetry = TRUE])
    /\ UNCHANGED <<crumb, crumbUnsupported, crumbMu>>
    /\ UNCHANGED <<issuer, notHttp>>

\* sync.Mutex.Lock returns only while no task holds the mutex
UnlockedAlways(mu) == TRUE

Unlocked(mu) == mu = 0

\* ensureCrumb under crumbMu: the cached crumb, nil when unsupported, or a
\* fetch from the crumb issuer, which keeps the mutex until it is answered
ensureCrumb(t) ==
    /\ task[t].pc = "ensure"
    /\ Unlocked(crumbMu)
    /\ IF crumb # NoCrumb
       THEN /\ SetTask(t, [task[t] EXCEPT !.pc = "exec", !.hdr = crumb])
            /\ UNCHANGED crumbMu
       ELSE IF crumbUnsupported
       THEN /\ SetTask(t, [task[t] EXCEPT !.pc = "exec"])
            /\ UNCHANGED crumbMu
       ELSE /\ SetTask(t, [task[t] EXCEPT !.pc = "fetch"])
            /\ crumbMu' = t
    /\ issuer' = IF crumb = NoCrumb /\ ~crumbUnsupported
                 THEN Asked(issuer) ELSE issuer
    /\ UNCHANGED <<crumb, crumbUnsupported>>
    /\ UNCHANGED notHttp

\* an issuer answer that passes for complete when it only names no field
EmptyCrumbOnly(a) == a.crumb = ""

\* if result.Crumb == "" || result.CrumbRequestField == ""
EmptyData(a) == a.crumb = "" \/ a.field = ""

\* the crumb issuer's answer a, handled by ensureCrumb's switch
CrumbIssuerAnswer(t, a) ==
    /\ task[t].pc = "fetch"
    /\ crumbMu = t
    /\ crumbMu' = 0
    /\ issuer' = Answered(issuer, a)
    /\ IF a.status = 0
       THEN /\ SetTask(t, [task[t] EXCEPT !.pc = "done", !.ret = [status |-> 0, err |-> "fetch crumb"]])
            /\ UNCHANGED <<crumb, crumbUnsupported>>
       ELSE IF a.status = 200
       THEN IF EmptyData(a)
            THEN /\ SetTask(t, [task[t] EXCEPT
                                   !.pc = "done",
                                   !.ret = [status |-> 0, err |-> "crumb issuer returned empty data"]])
                 /\ UNCHANGED <<crumb, crumbUnsupported>>
            ELSE /\ crumb' = [Field |-> a.field, Value |-> a.crumb]
                 /\ SetTask(t, [task[t] EXCEPT !.pc = "exec", !.hdr = crumb'])
                 /\ UNCHANGED crumbUnsupported
       ELSE IF a.status \in {404, 405}
       THEN /\ crumbUnsupported' = TRUE
            /\ SetTask(t, [task[t] EXCEPT !.pc = "exec"])
            /\ UNCHANGED crumb
       ELSE /\ SetTask(t, [task[t] EXCEPT !.pc = "done",
                                          !.ret = [status |-> 0, err |-> "crumb issuer error"]])
            /\ UNCHANGED <<crumb, crumbUnsupported>>
    /\ UNCHANGED notHttp

\* req.Execute fails: execute returns the error
ExecuteError(t) ==
    /\ task[t].pc = "exec"
    /\ SetTask(t, [task[t] EXCEPT !.pc = "done", !.ret = [status |-> 0, err |-> "request failed"]])
    /\ UNCHANGED <<crumb, crumbUnsupported, crumbMu>>
    /\ UNCHANGED <<issuer, notHttp>>

\* req.Execute is answered with status st: retry once after clearCrumb, or
\* return the response
Execute(t, st) ==
    /\ task[t].pc = "exec"
    /\ LET sent == [task[t] EXCEPT
                       !.execs = @ + 1,
                       !.first = IF task[t].execs = 0 THEN st ELSE @,
                       !.firstSent = IF task[t].execs = 0
                                     THEN task[t].hdr # NoCrumb ELSE @]
       IN  IF RetryStatus(st) /\ task[t].allowRetry /\ needsCrumb(task[t].method)
           THEN SetTask(t, [sent EXCEPT !.pc = "clear"])
           ELSE SetTask(t, [sent EXCEPT !.pc = "done", !.ret = [status |-> st, err |-> NoError]])
    /\ UNCHANGED <<crumb, crumbUnsupported, crumbMu>>
    /\ UNCHANGED <<issuer, notHttp>>

\* a clearCrumb that also forgets that the issuer is unsupported
UnsupportedForgotten(unsupported) == FALSE

\* clearCrumb sets c.crumb = nil and nothing else
UnsupportedKept(unsupported) == unsupported

\* clearCrumb under crumbMu, then execute(req, method, path, false)
clearCrumb(t) ==
    /\ task[t].pc = "clear"
    /\ Unlocked(crumbMu)
    /\ crumb' = NoCrumb
    /\ SetTask(t, [task[t] EXCEPT !.pc = "ensure", !.allowRetry = FALSE])
    /\ issuer' = NotCounted
    /\ crumbUnsupported' = UnsupportedKept(crumbUnsupported)
    /\ UNCHANGED crumbMu
    /\ UNCHANGED notHttp

\* the caller takes Do's result
DoReturn(t) ==
    /\ task[t].pc = "done"
    /\ SetTask(t, IdleTask)
    /\ UNCHANGED <<crumb, crumbUnsupported, crumbMu>>
    /\ UNCHANGED <<issuer, notHttp>>

----------------------------------------------------------------------------
(* The console log: byte i of generation g is <<g, i>> *)

LogBytes(g, from, to) == [k \in 1..(to - from) |-> <<g, from + k>>]

ConsoleLog == LogBytes(logGen, 0, logLen)

\* the log is modelled while a follower may still read it
LogObserved == streamLogs /\ follower.pc # "exited"

\* Server: the running build appends a byte to its log
ServerAppend ==
    /\ LogObserved
    /\ building
    /\ logLen < MaxLog
    /\ logLen' = logLen + 1
    /\ UNCHANGED <<logGen, building, result, streamLogs, ctxDone, logCtxDone,
                   logErrCh, follower, monitor, out>>
    /\ UNCHANGED logClean
    /\ UNCHANGED notFollow

\* Server: the log is truncated and starts again (the only way a start offset
\* taken from X-Text-Size can exceed the log's length, that is, of a 416)
ServerRotate ==
    /\ LogObserved
    /\ building
    /\ logLen > 0
    /\ logGen < MaxRotations
    /\ logGen' = logGen + 1
    /\ logLen' = 0
    /\ logClean' = FALSE
    /\ UNCHANGED <<building, result, streamLogs, ctxDone, logCtxDone,
                   logErrCh, follower, monitor, out>>
    /\ UNCHANGED notFollow

\* Server: the build finishes with result r
ServerFinish(r) ==
    /\ monitor.pc # "done"
    /\ building
    /\ building' = FALSE
    /\ result' = r
    /\ UNCHANGED <<logLen, logGen, streamLogs, ctxDone, logCtxDone,
                   logErrCh, follower, monitor, out>>
    /\ UNCHANGED logClean
    /\ UNCHANGED notFollow

\* The user interrupts the command: cmd.Context() and its child logCtx are done
CtxCancel ==
    /\ ~ctxDone
    /\ monitor.pc # "done"
    /\ ctxDone' = TRUE
    /\ logCtxDone' = TRUE
    /\ UNCHANGED <<logLen, logGen, building, result, streamLogs,
                   logErrCh, follower, monitor, out>>
    /\ UNCHANGED logClean
    /\ UNCHANGED notFollow

----------------------------------------------------------------------------
(* StreamProgressiveLog *)

\* a faulty follower that never moves its offset
NextOffsetStale(offset, textSize) == offset

\* strconv.Atoi of X-Text-Size: the offset moves only when the header parses
NextOffset(offset, textSize) ==
    IF textSize \in Nat THEN textSize ELSE offset

\* strings.EqualFold(X-More-Data, "true")
MoreData(hdr) == hdr = "true"

\* the follower has not returned: no site, no cancellation seen
NotLeft == [site |-> "none", cancelled |-> FALSE]

\* a faulty follower that returns the error although its context is cancelled
CancelledResultRaw(cancelled, err) == err

\* if ctx != nil && ctx.Err() != nil { return nil }; return err
CancelledResult(cancelled, err) == IF cancelled THEN NoError ELSE err

\* the goroutine's tail: the return value goes to logErrCh
FollowerExit(e, site) ==
    /\ follower' = [follower EXCEPT
                       !.pc = "exited", !.ret = e,
                       !.left = [site |-> site, cancelled |-> logCtxDone]]
    /\ logErrCh' = Append(logErrCh, e)

\* top of the loop: select on ctx.Done(), else build and send the request
FollowerTop ==
    /\ follower.pc = "top"
    /\ IF logCtxDone
       THEN FollowerExit(NoError, "top")
       ELSE /\ follower' = [follower EXCEPT !.pc = "inflight"]
            /\ UNCHANGED logErrCh
    /\ UNCHANGED <<logLen, logGen, building, result, streamLogs, ctxDone,
                   logCtxDone, monitor, out>>
    /\ UNCHANGED logClean
    /\ UNCHANGED notFollow

\* client.Do fails (transport error, or the context was cancelled in flight)
FollowerRequestError ==
    /\ follower.pc = "inflight"
    /\ FollowerExit(CancelledResult(logCtxDone, "request failed"), "request")
    /\ UNCHANGED <<logLen, logGen, building, result, streamLogs, ctxDone,
                   logCtxDone, monitor, out>>
    /\ UNCHANGED logClean
    /\ UNCHANGED notFollow

\* a faulty follower that keeps its offset after a 416
RestartOffsetKept(offset) == offset

\* the offset StreamProgressiveLog continues from after a 416
RestartOffset(offset) == 0

\* 416: the start offset lies beyond the log; offset = 0, sleep, continue
Follower416 ==
    /\ follower.pc = "inflight"
    /\ follower.offset > logLen
    /\ follower' = [follower EXCEPT !.pc = "top",
                                    !.offset = RestartOffset(follower.offset),
                                    !.restarts = @ + 1]
    /\ logClean' = TRUE
    /\ UNCHANGED <<logLen, logGen, building, result, streamLogs, ctxDone,
                   logCtxDone, logErrCh, monitor, out>>
    /\ UNCHANGED notFollow

\* resp.RawBody() == nil
FollowerEmptyBody ==
    /\ follower.pc = "inflight"
    /\ follower.offset <= logLen
    /\ FollowerExit("log stream returned empty body", "body")
    /\ UNCHANGED <<logLen, logGen, building, result, streamLogs, ctxDone,
                   logCtxDone, monitor, out>>
    /\ UNCHANGED logClean
    /\ UNCHANGED notFollow

\* 200: the body holds the log from the start offset on, X-Text-Size the
\* log's length and X-More-Data whether the build is still running
FollowerResponse ==
    /\ follower.pc = "inflight"
    /\ follower.offset <= logLen
    /\ follower' = [follower EXCEPT
                       !.pc = "reading",
                       !.resp = [body |-> LogBytes(logGen, follower.offset, logLen),
                                 textSize |-> logLen,
                                 moreData |-> IF building THEN "true" ELSE "false"]]
    /\ UNCHANGED <<logLen, logGen, building, result, streamLogs, ctxDone,
                   logCtxDone, logErrCh, monitor, out>>
    /\ UNCHANGED logClean
    /\ UNCHANGED notFollow

\* readAndClose fails (the stream broke, or the context was cancelled)
FollowerReadError ==
    /\ follower.pc = "reading"
    /\ FollowerExit(CancelledResult(logCtxDone, "read log chunk"), "read")
    /\ UNCHANGED <<logLen, logGen, building, result, streamLogs, ctxDone,
                   logCtxDone, monitor, out>>
    /\ UNCHANGED logClean
    /\ UNCHANGED notFollow

\* out.Write(chunk) fails
FollowerWriteError ==
    /\ follower.pc = "reading"
    /\ follower.resp.body # <<>>
    /\ FollowerExit("write failed", "write")
    /\ UNCHANGED <<logLen, logGen, building, result, streamLogs, ctxDone,
                   logCtxDone, monitor, out>>
    /\ UNCHANGED logClean
    /\ UNCHANGED notFollow

\* the chunk is read and written, the offset updated, and the loop sleeps and
\* continues while X-More-Data is true
FollowerChunk ==
    /\ follower.pc = "reading"
    /\ LET chunk == follower.resp.body
           off   == NextOffset(follower.offset, follower.resp.textSize)
       IN  /\ out' = IF Len(chunk) > 0
                     THEN Append(out, [kind |-> "chunk", start |-> follower.offset,
                                       bytes |-> chunk, epoch |-> follower.restarts])
                     ELSE out
           /\ IF MoreData(follower.resp.moreData)
              THEN /\ follower' = [follower EXCEPT !.pc = "top", !.offset = off]
                   /\ UNCHANGED logErrCh
              ELSE /\ follower' = [follower EXCEPT
                                      !.pc = "exited", !.ret = NoError,
                                      !.offset = off,
                                      !.left = [site |-> "end",
                                                cancelled |-> logCtxDone]]
                   /\ logErrCh' = Append(logErrCh, NoError)
    /\ UNCHANGED <<logLen, logGen, building, result, streamLogs, ctxDone,
                   logCtxDone, monitor>>
    /\ UNCHANGED logClean
    /\ UNCHANGED notFollow

----------------------------------------------------------------------------
(* monitorRun *)

\* what client.Do leaves in `detail` for a 200 answer of the status endpoint
\* (the build followed is build 128)
StatusDetail == [building |-> building, result |-> result, number |-> 128]

\* a non-2xx answer is no error for client.Do: `detail` keeps its zero value
ZeroDetail == [building |-> FALSE, result |-> "", number |-> 0]

\* a faulty monitorRun that returns the result as the server spelled it
NormalizeResultRaw(r) == r

\* result := strings.ToUpper(detail.Result); if result == "" { result = "SUCCESS" }
NormalizeResult(r) == IF ToUpper(r) = "" THEN "SUCCESS" ELSE ToUpper(r)

\* if streamLogs { logCtx, cancel = ...; logErrCh = make(chan error, 1); go func() ... }
MonitorStart ==
    /\ monitor.pc = "start"
    /\ monitor' = [monitor EXCEPT !.pc = "poll"]
    /\ follower' = IF streamLogs THEN [follower EXCEPT !.pc = "top"] ELSE follower
    /\ UNCHANGED <<logLen, logGen, building, result, streamLogs, ctxDone,
                   logCtxDone, logErrCh, out>>
    /\ UNCHANGED logClean
    /\ UNCHANGED notFollow

\* logErrCh = make(chan error, 1)
logErrChCap == 1

\* a monitor that leaves the follower's context alone
cancelSkipped(done) == done

\* if cancel != nil { cancel() }: logCtx is done from here on when a
\* follower was started
cancel(done) == done \/ streamLogs

\* client.Do on the status endpoint returns an error: cancel(), then drain
MonitorPollError ==
    /\ monitor.pc = "poll"
    /\ monitor' = [monitor EXCEPT !.pc = "drain", !.polls = "error"]
    /\ logCtxDone' = cancel(logCtxDone)
    /\ UNCHANGED <<logLen, logGen, building, result, streamLogs, ctxDone,
                   logErrCh, follower, out>>
    /\ UNCHANGED logClean
    /\ UNCHANGED notFollow

\* the poll's answer d says the build is over: cancel(), then await the follower
MonitorFinished(d, how) ==
    /\ monitor.pc = "poll"
    /\ ~d.building
    /\ monitor' = [monitor EXCEPT !.pc = "await", !.detail = d, !.polls = how]
    /\ logCtxDone' = cancel(logCtxDone)
    /\ UNCHANGED <<logLen, logGen, building, result, streamLogs, ctxDone,
                   logErrCh, follower, out>>
    /\ UNCHANGED logClean
    /\ UNCHANGED notFollow

\* the build is still running: a heartbeat when 5 seconds have passed, sleep 2s
MonitorRunning(beat) ==
    /\ monitor.pc = "poll"
    /\ StatusDetail.building
    /\ beat => (streamLogs /\ monitor.beats < MaxHeartbeats)
    /\ monitor' = [monitor EXCEPT !.beats = IF beat THEN @ + 1 ELSE @]
    /\ out' = IF beat
              THEN Append(out, [kind |-> "heartbeat", number |-> StatusDetail.number])
              ELSE out
    /\ UNCHANGED <<logLen, logGen, building, result, streamLogs, ctxDone,
                   logCtxDone, logErrCh, follower>>
    /\ UNCHANGED logClean
    /\ UNCHANGED notFollow

\* after a status error: if logErrCh != nil { <-logErrCh }; return "", err
MonitorDrain ==
    /\ monitor.pc = "drain"
    /\ IF streamLogs
       THEN /\ Len(logErrCh) > 0
            /\ logErrCh' = Tail(logErrCh)
            /\ monitor' = [monitor EXCEPT !.pc = "done", !.received = @ + 1,
                                          !.ret = [result |-> "",
                                                  err |-> "status request failed"]]
       ELSE /\ monitor' = [monitor EXCEPT !.pc = "done",
                                          !.ret = [result |-> "",
                                                  err |-> "status request failed"]]
            /\ UNCHANGED logErrCh
    /\ UNCHANGED <<logLen, logGen, building, result, streamLogs, ctxDone,
                   logCtxDone, follower, out>>
    /\ UNCHANGED logClean
    /\ UNCHANGED notFollow

\* a faulty monitor that does not wait for the follower
AwaitFollowerNoWait == [ready |-> TRUE, err |-> NoError, taken |-> 0]

\* the value monitorRun takes from logErrCh before the status line
AwaitFollower ==
    IF streamLogs
    THEN [ready |-> Len(logErrCh) > 0,
          err   |-> IF Len(logErrCh) > 0 THEN Head(logErrCh) ELSE NoError,
          taken |-> 1]
    ELSE [ready |-> TRUE, err |-> NoError, taken |-> 0]

\* a faulty monitor that drops the follower's error
PropagateDropped(e) == NoError

\* the follower's error as monitorRun propagates it
Propagate(e) == e

\* after !building: if err := <-logErrCh; err != nil { return "", err };
\* normalise the result, print the status line, return the result
MonitorAwait ==
    /\ monitor.pc = "await"
    /\ LET got == AwaitFollower
           res == NormalizeResult(monitor.detail.result)
       IN  /\ got.ready
           /\ logErrCh' = IF got.taken = 1 THEN Tail(logErrCh) ELSE logErrCh
           /\ IF Propagate(got.err) # NoError
              THEN /\ monitor' = [monitor EXCEPT !.pc = "done",
                                                 !.received = @ + got.taken,
                                                 !.ferr = got.err,
                                                 !.ret = [result |-> "", err |-> got.err]]
                   /\ UNCHANGED out
              ELSE /\ monitor' = [monitor EXCEPT !.pc = "done",
                                                 !.received = @ + got.taken,
                                                 !.ferr = got.err,
                                                 !.ret = [result |-> res, err |-> NoError]]
                   /\ out' = IF streamLogs
                             THEN Append(out, [kind |-> "status",
                                               number |-> monitor.detail.number,
                                               result |-> res])
                             ELSE out
    /\ UNCHANGED <<logLen, logGen, building, result, streamLogs, ctxDone,
                   logCtxDone, follower>>
    /\ UNCHANGED logClean
    /\ UNCHANGED notFollow

----------------------------------------------------------------------------
(* jk run ls: job paths and cursors. A string the code inspects character  *)
(* by character is a sequence of one-character strings.                     *)

\* the over-fetch window of executeRunList
runListHeadroom == 50

\* the job that has builds; every other path names a job without builds
TheJob == <<"R", "&", "D">>

\* job paths given on the command line
JobPaths == {TheJob, <<"/">> \o TheJob \o <<"/">>, <<" ">> \o TheJob, <<"K">>}

RECURSIVE TrimLeft(_, _)
TrimLeft(s, c) == IF s # <<>> /\ Head(s) = c THEN TrimLeft(Tail(s), c) ELSE s

RECURSIVE TrimRight(_, _)
TrimRight(s, c) ==
    IF s # <<>> /\ s[Len(s)] = c THEN TrimRight(SubSeq(s, 1, Len(s) - 1), c) ELSE s

\* strings.Trim(s, c) for a one-character cutset
Trim(s, c) == TrimRight(TrimLeft(s, c), c)

\* strings.TrimSpace
TrimSpace(s) == Trim(s, " ")

normalizeJobPath(jobPath) == Trim(TrimSpace(jobPath), "/")

\* strings.Split(s, "/") without the empty segments EncodeJobPath skips
RECURSIVE Segments(_, _)
Segments(s, cur) ==
    IF s = <<>>
    THEN IF cur = <<>> THEN <<>> ELSE <<cur>>
    ELSE IF Head(s) = "/"
         THEN (IF cur = <<>> THEN <<>> ELSE <<cur>>) \o Segments(Tail(s), <<>>)
         ELSE Segments(Tail(s), Append(cur, Head(s)))

\* jenkins.EncodeJobPath: the job/<segment> chain the request addresses,
\* given by its segments
EncodeJobPath(human) == Segments(Trim(human, "/"), <<>>)

\* json.Marshal escapes '&' (as '<' and '>') in a string
EscapeChar(c) == IF c = "&" THEN "\\u0026" ELSE c

\* json.Unmarshal reads the escape back
UnescapeChar(c) == IF c = "\\u0026" THEN "&" ELSE c

Escape(s) == [i \in DOMAIN s |-> EscapeChar(s[i])]

Unescape(s) == [i \in DOMAIN s |-> UnescapeChar(s[i])]

\* the zero runCursorPayload
ZeroPayload == [JobPath |-> <<>>, Number |-> 0]

JobPathMember(str) == [key |-> "jobPath", str |-> str, num |-> 0]

NumberMember(n) == [key |-> "number", str |-> <<>>, num |-> n]

\* json.Marshal(runCursorPayload): jobPath is omitted when empty (omitempty)
Marshal(payload) ==
    [valid |-> TRUE,
     members |-> (IF payload.JobPath = <<>> THEN <<>>
                  ELSE <<JobPathMember(Escape(payload.JobPath))>>)
                 \o <<NumberMember(payload.Number)>>]

\* bytes that are no JSON document
NotJson == [valid |-> FALSE, members |-> <<>>]

\* json.Unmarshal into a runCursorPayload: a member missing from the document
\* leaves the zero value
Unmarshal(doc) ==
    LET Has(k) == \E i \in DOMAIN doc.members : doc.members[i].key = k
        Get(k) == doc.members[CHOOSE i \in DOMAIN doc.members : doc.members[i].key = k]
    IN  [JobPath |-> IF Has("jobPath") THEN Unescape(Get("jobPath").str) ELSE <<>>,
         Number  |-> IF Has("number") THEN Get("number").num ELSE 0]

\* a cursor string: empty ("none"), only white space ("blank"), no valid
\* base64 ("bad"), or the base64 text of a document ("b64")
NoCursor == [enc |-> "none", doc |-> NotJson]

BlankCursor == [enc |-> "blank", doc |-> NotJson]

BadBase64Cursor == [enc |-> "bad", doc |-> NotJson]

\* base64.RawURLEncoding.EncodeToString
Base64(doc) == [enc |-> "b64", doc |-> doc]

encodeRunCursor(jobPath, number) ==
    Base64(Marshal([JobPath |-> jobPath, Number |-> number]))

decodeRunCursor(cursor) ==
    IF cursor.enc = "none"
    THEN [payload |-> ZeroPayload, err |-> NoError]
    ELSE IF cursor.enc # "b64" \/ ~cursor.doc.valid
    THEN [payload |-> ZeroPayload, err |-> "decode cursor"]
    ELSE [payload |-> Unmarshal(cursor.doc), err |-> NoError]

\* strings.TrimSpace(opts.Cursor) != ""
CursorGiven(cursor) == cursor.enc \notin {"none", "blank"}

\* cursors a caller can make up instead of replaying a returned one
CraftedCursors ==
    {BlankCursor, BadBase64Cursor, Base64(NotJson),
     Base64([valid |-> TRUE, members |-> <<NumberMember(0)>>]),
     Base64([valid |-> TRUE, members |-> <<NumberMember(2)>>]),
     encodeRunCursor(<<"K">>, 2)}

----------------------------------------------------------------------------
(* jk run ls: the job on the server and the options of a call *)

MaxBuilds == 3       \* a job has up to MaxBuilds builds with free result and time

\* results and timestamps (milliseconds) of finished builds
BuildResults == {"SUCCESS", "FAILURE"}

Times == {1, 2}

\* the jobs: up to MaxBuilds builds of any result and time, or more builds
\* than the over-fetch window of a call with a limit below MaxBuilds holds
Jobs ==
    UNION {[1..n -> [Result : BuildResults, Timestamp : Times]] : n \in 0..MaxBuilds}
    \cup {[i \in 1..(runListHeadroom + MaxBuilds) |->
               [Result |-> "SUCCESS", Timestamp |-> 2]]}

\* the runSummary of build n
Summary(n) == [Number |-> n, Result |-> builds[n].Result,
               Timestamp |-> builds[n].Timestamp, Building |-> FALSE]

Min(a, b) == IF a < b THEN a ELSE b

\* the builds of the job a path addresses
JobBuilds(jobPath) == IF EncodeJobPath(jobPath) = <<TheJob>> THEN builds ELSE <<>>

\* Server: GET /<job>/api/json?tree=builds[...]{,fetchLimit} answers with the
\* newest fetchLimit builds of the job, newest first
ServerBuilds(jobPath, fetchLimit) ==
    LET n == Len(JobBuilds(jobPath))
    IN  [i \in 1..Min(n, fetchLimit) |-> Summary(n - i + 1)]

\* opts.Since: nil, or a time given by its UnixMilli
NoSince == [set |-> FALSE, ms |-> 0]

Sinces == {NoSince} \cup {[set |-> TRUE, ms |-> m] : m \in {0, 2, 3}}

\* --filter result=failure
FilterSets == {<<>>, <<[Key |-> "result", Operator |-> "=", Value |-> "failure"]>>}

Limits == {0, 1, 2}

\* --group-by and --with-meta
Reports == {[GroupBy |-> "", WithMeta |-> FALSE],
            [GroupBy |-> "result", WithMeta |-> TRUE]}

\* runListOptions of a call without cursor
RunListOptions ==
    {[Limit |-> l, Cursor |-> NoCursor, Filters |-> f, Since |-> s,
      GroupBy |-> r.GroupBy, WithMeta |-> r.WithMeta] :
        l \in Limits, f \in FilterSets, s \in Sinces, r \in Reports}

statusFromFlags(isBuilding) == IF isBuilding THEN "running" ELSE "completed"

resultForList(res, isBuilding) ==
    IF isBuilding THEN ""
    ELSE IF ToUpper(res) = "" THEN "SUCCESS" ELSE ToUpper(res)

\* the values of a filter.Context and of a decoded JSON document, by their
\* Go type
StringValue(s) == [kind |-> "string", v |-> s]

IntValue(n) == [kind |-> "int", v |-> n]

BoolValue(b) == [kind |-> "bool", v |-> b]

StringsValue(q) == [kind |-> "[]string", v |-> q]

NilValue == [kind |-> "nil", v |-> 0]

\* a map[string]string without entries, and m[k] = v
EmptyMap == [k \in {} |-> ""]

Put(m, k, v) == (k :> v) @@ m

\* fmt.Sprint of a decoded JSON value
Sprint(value) ==
    CASE value.kind = "string" -> value.v
      [] value.kind = "nil" -> "<nil>"
      [] value.kind = "bool" -> IF value.v THEN "true" ELSE "false"
      [] OTHER -> "?"

\* the names a parameter entry may carry, and strings.TrimSpace on them
ParamNames == {"ENV", " ENV", "TOKEN", "", " "}

TrimName(name) ==
    CASE name = " ENV" -> "ENV"
      [] name = " " -> ""
      [] OTHER -> name

\* "param." + name
ParamKey(name) ==
    CASE name = "ENV" -> "param.ENV"
      [] name = " ENV" -> "param. ENV"
      [] name = "TOKEN" -> "param.TOKEN"
      [] name = " " -> "param. "
      [] OTHER -> "param."

\* an entry of an action's "parameters" list: a JSON object with its "name"
\* and "value" members, or something else; a name that is no string reads
\* as ""
ParamEntryName(entry) == IF entry.name.kind = "string" THEN entry.name.v ELSE ""

RECURSIVE ParamEntries(_, _)
ParamEntries(params, raw) ==
    IF raw = <<>> THEN params
    ELSE LET entry == Head(raw)
             name == ParamEntryName(entry)
         IN  ParamEntries(IF entry.isMap /\ TrimName(name) # ""
                          THEN Put(params, TrimName(name), Sprint(entry.value))
                          ELSE params,
                          Tail(raw))

\* extractParametersFromSummary: the actions in their order, each with the
\* entries of its "parameters" list when it has one
RECURSIVE ParamActions(_, _)
ParamActions(params, actions) ==
    IF actions = <<>> THEN params
    ELSE ParamActions(IF Head(actions).hasParameters
                      THEN ParamEntries(params, Head(actions).parameters)
                      ELSE params,
                      Tail(actions))

extractParametersFromSummary(summary) == ParamActions(EmptyMap, summary.Actions)

\* a context that takes, for each name, the value of the first entry of the
\* actions that carries the name as it is written
RECURSIVE FirstEntries(_, _)
FirstEntries(ctx, raw) ==
    IF raw = <<>> THEN ctx
    ELSE LET entry == Head(raw)
             key == ParamKey(ParamEntryName(entry))
         IN  FirstEntries(IF entry.isMap /\ TrimName(ParamEntryName(entry)) # ""
                             /\ key \notin DOMAIN ctx
                          THEN Put(ctx, key, StringValue(Sprint(entry.value)))
                          ELSE ctx,
                          Tail(raw))

RECURSIVE AllEntries(_)
AllEntries(actions) ==
    IF actions = <<>> THEN <<>>
    ELSE (IF Head(actions).hasParameters THEN Head(actions).parameters ELSE <<>>)
             \o AllEntries(Tail(actions))

ParamContextFromActions(summary, parameters) ==
    FirstEntries(EmptyMap, AllEntries(summary.Actions))

\* for name, value := range parameters { ctx["param."+name] = value }
ParamContext(summary, parameters) ==
    [k \in {ParamKey(n) : n \in DOMAIN parameters} |->
        StringValue(parameters[CHOOSE n \in DOMAIN parameters : ParamKey(n) = k])]

\* v, ok := m[key].(string)
IsString(value) == value.kind = "string"

\* an entry of an action's "causes" list that is a JSON object, as a
\* runCauseInfo: Type is the _class string as it came, or else the short
\* description
CauseInfo(causeMap) ==
    [Type |-> IF IsString(causeMap.class) /\ causeMap.class.v # ""
              THEN causeMap.class.v
              ELSE IF IsString(causeMap.shortDescription)
              THEN causeMap.shortDescription.v
              ELSE "",
     UserID |-> IF IsString(causeMap.userId) THEN causeMap.userId.v ELSE "",
     UserName |-> IF IsString(causeMap.userName) THEN causeMap.userName.v ELSE ""]

RECURSIVE CauseEntries(_)
CauseEntries(raw) ==
    IF raw = <<>> THEN <<>>
    ELSE (IF Head(raw).isMap THEN <<CauseInfo(Head(raw))>> ELSE <<>>)
             \o CauseEntries(Tail(raw))

\* extractCausesFromSummary: the actions in their order, each with the
\* entries of its "causes" list when it has one
RECURSIVE CauseActions(_)
CauseActions(actions) ==
    IF actions = <<>> THEN <<>>
    ELSE (IF "causes" \in DOMAIN Head(actions)
          THEN CauseEntries(Head(actions).causes)
          ELSE <<>>)
             \o CauseActions(Tail(actions))

extractCausesFromSummary(summary) == CauseActions(summary.Actions)

\* the user names (or else user ids) and the types of the causes, the
\* empty ones left out
RECURSIVE causeUsers(_)
causeUsers(causes) ==
    IF causes = <<>> THEN <<>>
    ELSE (IF Head(causes).UserName # "" THEN <<Head(causes).UserName>>
          ELSE IF Head(causes).UserID # "" THEN <<Head(causes).UserID>>
          ELSE <<>>)
             \o causeUsers(Tail(causes))

RECURSIVE causeTypes(_)
causeTypes(causes) ==
    IF causes = <<>> THEN <<>>
    ELSE (IF Head(causes).Type # "" THEN <<Head(causes).Type>> ELSE <<>>)
             \o causeTypes(Tail(causes))

\* if len(causeUsers) > 0 { ctx["cause.user"] = causeUsers }, and the same
\* for cause.type
CauseContext(causes) ==
    (IF causeUsers(causes) # <<>>
     THEN "cause.user" :> StringsValue(causeUsers(causes)) ELSE EmptyMap)
    @@ (IF causeTypes(causes) # <<>>
        THEN "cause.type" :> StringsValue(causeTypes(causes)) ELSE EmptyMap)

\* inspectRun: the attribute context of a run and, when they are needed, its
\* parameters and its causes
inspectRun(summary, needParams, needCauses) ==
    LET base == [result |-> StringValue(IF ToUpper(summary.Result) = ""
                                        THEN statusFromFlags(summary.Building)
                                        ELSE ToUpper(summary.Result)),
                 status |-> StringValue(statusFromFlags(summary.Building))]
        parameters == IF needParams
                      THEN extractParametersFromSummary(summary)
                      ELSE EmptyMap
        causes == IF needCauses THEN extractCausesFromSummary(summary) ELSE <<>>
    IN  [Summary |-> summary,
         Context |-> (IF needParams
                      THEN ParamContext(summary, parameters) @@ base
                      ELSE base)
                     @@ (IF needCauses THEN CauseContext(causes) ELSE EmptyMap),
         Parameters |-> parameters,
         Causes |-> causes]

\* strconv.ParseFloat and strconv.ParseBool on the filter values in use
ParseFloat(s) ==
    CASE s = "5" -> [ok |-> TRUE, v |-> 5]
      [] s = "7" -> [ok |-> TRUE, v |-> 7]
      [] OTHER -> [ok |-> FALSE, v |-> 0]

ParseBool(s) ==
    CASE s = "true" -> [ok |-> TRUE, v |-> TRUE]
      [] s = "false" -> [ok |-> TRUE, v |-> FALSE]
      [] OTHER -> [ok |-> FALSE, v |-> FALSE]

compareFloat(actual, expected, op) ==
    CASE op = "=" -> actual = expected
      [] op = "!=" -> actual # expected
      [] op = ">" -> actual > expected
      [] op = ">=" -> actual >= expected
      [] op = "<" -> actual < expected
      [] op = "<=" -> actual <= expected
      [] OTHER -> FALSE

\* filter.evalString for the operators =, != (strings.EqualFold) and the
\* numeric comparisons
evalString(actual, f) ==
    CASE f.Operator = "=" -> ToUpper(actual) = ToUpper(f.Value)
      [] f.Operator = "!=" -> ToUpper(actual) # ToUpper(f.Value)
      [] f.Operator \in {">", ">=", "<", "<="} ->
             /\ ParseFloat(f.Value).ok
             /\ ParseFloat(actual).ok
             /\ compareFloat(ParseFloat(actual).v, ParseFloat(f.Value).v, f.Operator)
      [] OTHER -> FALSE

evalFloat(actual, f) ==
    ParseFloat(f.Value).ok /\ compareFloat(actual, ParseFloat(f.Value).v, f.Operator)

evalBool(actual, f) ==
    /\ ParseBool(f.Value).ok
    /\ CASE f.Operator = "=" -> actual = ParseBool(f.Value).v
         [] f.Operator = "!=" -> actual # ParseBool(f.Value).v
         [] OTHER -> FALSE

\* filter.evaluateSingle: the predicate of the value's type
evaluateSingle(actual, f) ==
    CASE actual.kind = "string" -> evalString(actual.v, f)
      [] actual.kind = "int" -> evalFloat(actual.v, f)
      [] actual.kind = "bool" -> evalBool(actual.v, f)
      [] actual.kind = "[]string" ->
             \E i \in DOMAIN actual.v : evalString(actual.v[i], f)
      [] OTHER -> FALSE

\* a filter on a key the context lacks that holds when it is a negation
MissingKeyNegated(f) == f.Operator = "!="

\* value, ok := ctx[f.Key]; if !ok { return false }
MissingKey(f) == FALSE

\* filter.Evaluate: every filter names a key of the context and matches it
Evaluate(ctx, filters) ==
    \A i \in DOMAIN filters :
        IF filters[i].Key \in DOMAIN ctx
        THEN evaluateSingle(ctx[filters[i].Key], filters[i])
        ELSE MissingKey(filters[i])

\* contextValueToString for a string and a []string
contextValueToString(value) ==
    CASE value.kind = "string" -> value.v
      [] value.kind = "[]string" -> IF value.v # <<>> THEN value.v[1] ELSE ""
      [] OTHER -> Sprint(value)

resolveGroupValue(run, key) ==
    IF key \in DOMAIN run.Context THEN contextValueToString(run.Context[key])
    ELSE ""

RECURSIVE InsertDesc(_, _)
InsertDesc(x, s) ==
    IF s = <<>> THEN <<x>>
    ELSE IF x.Number > Head(s).Number THEN <<x>> \o s
    ELSE <<Head(s)>> \o InsertDesc(x, Tail(s))

RECURSIVE InsertionSortDesc(_)
InsertionSortDesc(s) ==
    IF s = <<>> THEN <<>> ELSE InsertDesc(Head(s), InsertionSortDesc(Tail(s)))

\* sort.Slice(sorted, func(i, j) { return sorted[i].Number > sorted[j].Number }):
\* a slice already in descending order stays as it is
SortDesc(s) ==
    IF \A i \in 1..(Len(s) - 1) : s[i].Number > s[i + 1].Number
    THEN s
    ELSE InsertionSortDesc(s)

----------------------------------------------------------------------------
(* jk run ls: processRunList *)

\* a faulty processRunList without the cursor check
CursorMismatchNever(payloadPath, normalized) == FALSE

\* the cursor check of processRunList
CursorMismatch(payloadPath, normalized) ==
    payloadPath # <<>> /\ payloadPath # normalized

\* a faulty loop that never stops for since
SinceStopsNever(sinceMs, timestamp) == FALSE

\* the since check of the loop
SinceStops(sinceMs, timestamp) == sinceMs > 0 /\ timestamp < sinceMs

\* a faulty cursor that carries the number of the first item
CursorNumberFirst(matched) == matched[1].Summary.Number

\* the build number a cursor carries: the last item's
CursorNumber(matched) == matched[Len(matched)].Summary.Number

\* groups[groupValue]: count the run and keep the first and last run by time
GroupAdd(groups, value, run) ==
    LET ts == run.Summary.Timestamp
        n  == run.Summary.Number
    IN  IF \E g \in groups : g.Value = value
        THEN LET acc == CHOOSE g \in groups : g.Value = value
             IN  (groups \ {acc}) \cup
                 {[Value |-> value, Count |-> acc.Count + 1,
                   Last |-> IF ts > acc.LastTimestamp THEN n ELSE acc.Last,
                   LastTimestamp |-> IF ts > acc.LastTimestamp THEN ts ELSE acc.LastTimestamp,
                   First |-> IF ts < acc.FirstTimestamp THEN n ELSE acc.First,
                   FirstTimestamp |-> IF ts < acc.FirstTimestamp THEN ts
                                      ELSE acc.FirstTimestamp]}
        ELSE groups \cup {[Value |-> value, Count |-> 1, Last |-> n, LastTimestamp |-> ts,
                           First |-> n, FirstTimestamp |-> ts]}

\* the state of the loop before its first iteration
LoopStart == [matched |-> <<>>, groups |-> {}, observed |-> <<>>,
              moreMatches |-> FALSE, inspected |-> <<>>, stopped |-> 0]

\* the loop body for a run that passed the filters
Collect(acc, run, opts) ==
    [acc EXCEPT
        !.inspected = Append(@, run.Summary.Number),
        !.observed = IF opts.WithMeta THEN Append(@, run.Summary.Number) ELSE @,
        !.groups = IF opts.GroupBy # ""
                   THEN GroupAdd(@, resolveGroupValue(run, opts.GroupBy), run)
                   ELSE @,
        !.matched = IF Len(acc.matched) < opts.Limit THEN Append(@, run) ELSE @,
        !.moreMatches = IF Len(acc.matched) < opts.Limit THEN @ ELSE TRUE]

\* one iteration of the loop: continue, break (stopped is set), or collect
LoopBody(acc, summary, opts, cutoff) ==
    LET sinceMs == IF opts.Since.set THEN opts.Since.ms ELSE 0
        run     == inspectRun(summary, FALSE, FALSE)
    IN  IF cutoff > 0 /\ summary.Number >= cutoff
        THEN acc
        ELSE IF SinceStops(sinceMs, summary.Timestamp)
        THEN [acc EXCEPT !.stopped = summary.Number]
        ELSE IF Len(opts.Filters) > 0 /\ ~Evaluate(run.Context, opts.Filters)
        THEN [acc EXCEPT !.inspected = Append(@, summary.Number)]
        ELSE Collect(acc, run, opts)

\* for _, summary := range sorted { ... }: the iterations lo..hi in order,
\* none after the break; the range is halved to keep the evaluation shallow
RECURSIVE RunLoop(_, _, _, _, _, _)
RunLoop(sorted, lo, hi, opts, cutoff, acc) ==
    IF lo > hi \/ acc.stopped # 0 THEN acc
    ELSE IF lo = hi THEN LoopBody(acc, sorted[lo], opts, cutoff)
    ELSE LET mid == (lo + hi) \div 2
         IN  RunLoop(sorted, mid + 1, hi, opts, cutoff,
                     RunLoop(sorted, lo, mid, opts, cutoff, acc))

buildRunListItem(jobPath, run) ==
    [ID |-> <<jobPath, run.Summary.Number>>,
     Number |-> run.Summary.Number,
     Status |-> statusFromFlags(run.Summary.Building),
     Result |-> resultForList(run.Summary.Result, run.Summary.Building)]

\* the order of strings.ToLower of the group values
ValueRank(v) ==
    CASE v = "" -> 0
      [] v = "FAILURE" -> 1
      [] OTHER -> 2

\* sort.Slice(groupItems, ...): by count, largest first, then by value
GroupBefore(a, b) ==
    IF a.Count = b.Count THEN ValueRank(a.Value) < ValueRank(b.Value)
    ELSE a.Count > b.Count

RECURSIVE SortGroups(_)
SortGroups(gs) ==
    IF gs = {} THEN <<>>
    ELSE LET first == CHOOSE g \in gs : \A h \in gs \ {g} : GroupBefore(g, h)
         IN  <<first>> \o SortGroups(gs \ {first})

\* the output of a call that failed
NoOutput == [Items |-> <<>>, Groups |-> <<>>, NextCursor |-> NoCursor,
             Metadata |-> [present |-> FALSE, observed |-> <<>>]]

assembleRunListOutput(jobPath, opts, acc, nextCursor) ==
    [Items |-> [i \in DOMAIN acc.matched |->
                   buildRunListItem(normalizeJobPath(jobPath), acc.matched[i])],
     Groups |-> SortGroups({[Key |-> opts.GroupBy, Value |-> g.Value, Count |-> g.Count,
                             First |-> g.First, Last |-> g.Last] : g \in acc.groups}),
     NextCursor |-> nextCursor,
     Metadata |-> [present |-> opts.WithMeta, observed |-> acc.observed]]

\* a call's result: the output, the error, and what the loop went through
Failed(e) == [out |-> NoOutput, err |-> e, inspected |-> <<>>, stopped |-> 0]

processRunList(jobPath, opts, fetched) ==
    LET normalized == normalizeJobPath(jobPath)
        sorted     == SortDesc(fetched)
        decoded    == decodeRunCursor(opts.Cursor)
    IN  IF CursorGiven(opts.Cursor) /\ decoded.err # NoError
        THEN Failed(decoded.err)
        ELSE IF CursorGiven(opts.Cursor)
                /\ CursorMismatch(decoded.payload.JobPath, normalized)
        THEN Failed("cursor mismatch")
        ELSE LET cutoff == IF CursorGiven(opts.Cursor) THEN decoded.payload.Number ELSE 0
                 acc    == RunLoop(sorted, 1, Len(sorted), opts, cutoff, LoopStart)
                 nextCursor ==
                     IF acc.moreMatches /\ Len(acc.matched) > 0
                     THEN encodeRunCursor(normalized, CursorNumber(acc.matched))
                     ELSE NoCursor
             IN  [out |-> assembleRunListOutput(jobPath, opts, acc, nextCursor),
                  err |-> NoError, inspected |-> acc.inspected, stopped |-> acc.stopped]

\* opts.Limit after executeRunList's default
EffectiveLimit(limit) == IF limit <= 0 THEN 20 ELSE limit

\* executeRunList with the server's answer to its request
executeRunList(jobPath, opts) ==
    LET o == [opts EXCEPT !.Limit = EffectiveLimit(opts.Limit)]
        fetchLimit == o.Limit + runListHeadroom
    IN  processRunList(jobPath, o, ServerBuilds(jobPath, fetchLimit))

----------------------------------------------------------------------------
(* jk run ls: calls and pagination sessions *)

ZeroOptions == [Limit |-> 0, Cursor |-> NoCursor, Filters |-> <<>>, Since |-> NoSince,
                GroupBy |-> "", WithMeta |-> FALSE]

NoCall == [kind |-> "none", jobPath |-> <<>>, opts |-> ZeroOptions, res |-> Failed(NoError)]

NoSession == [jobPath |-> <<>>, opts |-> ZeroOptions, pages |-> <<>>, cursor |-> NoCursor]

\* no run ls call is made
RunIdle ==
    /\ builds = <<>>
    /\ session = NoSession
    /\ last = NoCall

\* the build numbers of a page
Numbers(items) == [i \in DOMAIN items |-> items[i].Number]

\* jk run ls <jobPath> with some options and no cursor: the first page
RunListFirst ==
    /\ last.kind = "none"
    /\ \E jobPath \in JobPaths, o \in RunListOptions :
           LET res == executeRunList(jobPath, o)
           IN  /\ last' = [kind |-> "first", jobPath |-> jobPath, opts |-> o,
                           res |-> res]
               /\ session' = [jobPath |-> jobPath, opts |-> o,
                              pages |-> <<Numbers(res.out.Items)>>,
                              cursor |-> res.out.NextCursor]
    /\ UNCHANGED builds
    /\ UNCHANGED notRun

\* the same call again with --cursor set to the nextCursor of the page before
RunListNext ==
    /\ last.kind \in {"first", "next"}
    /\ session.cursor # NoCursor
    /\ LET o   == [session.opts EXCEPT !.Cursor = session.cursor]
           res == executeRunList(session.jobPath, o)
       IN  /\ last' = [kind |-> "next", jobPath |-> session.jobPath, opts |-> o,
                       res |-> res]
           /\ session' = IF res.err = NoError
                         THEN [session EXCEPT !.pages = Append(@, Numbers(res.out.Items)),
                                              !.cursor = res.out.NextCursor]
                         ELSE session
    /\ UNCHANGED builds
    /\ UNCHANGED notRun

\* instead of the next page: the cursor of the first page replayed against
\* another job path
RunListReplay(jobPath) ==
    /\ last.kind = "first"
    /\ session.cursor # NoCursor
    /\ jobPath # session.jobPath
    /\ LET o == [session.opts EXCEPT !.Cursor = session.cursor]
       IN  last' = [kind |-> "replay", jobPath |-> jobPath, opts |-> o,
                    res |-> executeRunList(jobPath, o)]
    /\ UNCHANGED <<builds, session>>
    /\ UNCHANGED notRun

\* options of the calls made with a made-up cursor
ProbeOptions == {o \in RunListOptions : ~o.Since.set /\ o.GroupBy = ""}

\* jk run ls <jobPath> --cursor <cursor> with a cursor the caller made up
RunListCrafted(jobPath, cursor) ==
    /\ last.kind = "none"
    /\ \E po \in ProbeOptions :
           LET o == [po EXCEPT !.Cursor = cursor]
           IN  last' = [kind |-> "crafted", jobPath |-> jobPath, opts |-> o,
                        res |-> executeRunList(jobPath, o)]
    /\ UNCHANGED <<builds, session>>
    /\ UNCHANGED notRun

\* executeRunList for the next page when client.Do returns an error: no
\* output, the error
RunListRequestFails ==
    /\ last.kind \in {"first", "next"}
    /\ session.cursor # NoCursor
    /\ last' = [kind |-> "failed", jobPath |-> session.jobPath,
                opts |-> [session.opts EXCEPT !.Cursor = session.cursor],
                res |-> Failed("request failed")]
    /\ UNCHANGED <<builds, session>>
    /\ UNCHANGED notRun

----------------------------------------------------------------------------
(* Parameter discovery: parseParametersFromConfig (jk run params --source  *)
(* config) and the metadataCollector of run ls (--source runs).  Strings   *)
(* that the code inspects character by character are sequences of          *)
(* characters; the XML document is read token by token.                    *)

MaxDepth == 4
MaxParams == 1
MaxRuns == 2

\* filter.secretKeywords
secretKeywords ==
    { <<"p","a","s","s","w","o","r","d">>, <<"s","e","c","r","e","t">>,
      <<"t","o","k","e","n">>, <<"a","p","i","k","e","y">>,
      <<"a","p","i","_","k","e","y">>, <<"k","e","y">>, <<"p","w","d">> }

\* the texts a document or a run carries: a secret-looking one and a plain one
KeyText == <<"K","e","y">>

EnvText == <<"E","N","V">>

Texts == {KeyText, EnvText}

\* the byte of a character
Byte(c) ==
    CASE c = " " -> 32 [] c = "E" -> 69 [] c = "K" -> 75 [] c = "N" -> 78
      [] c = "V" -> 86 [] c = "_" -> 95 [] c = "e" -> 101 [] c = "k" -> 107
      [] c = "n" -> 110 [] c = "v" -> 118 [] c = "y" -> 121
      [] c = "-" -> 45 [] c = "/" -> 47 [] c = "2" -> 50 [] c = "P" -> 80
      [] c = "R" -> 82 [] c = "T" -> 84 [] c = "a" -> 97 [] c = "b" -> 98
      [] c = "d" -> 100 [] c = "i" -> 105 [] c = "l" -> 108 [] c = "m" -> 109
      [] c = "o" -> 111 [] c = "r" -> 114 [] c = "s" -> 115 [] c = "t" -> 116
      [] c = "u" -> 117 [] c = "x" -> 120 [] OTHER -> 0

\* strings.ToLower, character by character
LowerChar(c) ==
    CASE c = "E" -> "e" [] c = "K" -> "k" [] c = "N" -> "n" [] c = "V" -> "v"
      [] c = "O" -> "o" [] c = "T" -> "t"
      [] OTHER -> c

ToLower(s) == [i \in 1..Len(s) |-> LowerChar(s[i])]

\* strings.Contains
Contains(s, sub) ==
    \E i \in 0..(Len(s) - Len(sub)) : SubSeq(s, i + 1, i + Len(sub)) = sub

IsLikelySecret(name) ==
    \E keyword \in secretKeywords : Contains(ToLower(name), keyword)

\* the < of Go strings: bytewise, a proper prefix first
RECURSIVE StringLess(_, _)
StringLess(a, b) ==
    IF b = <<>> THEN FALSE
    ELSE IF a = <<>> THEN TRUE
    ELSE IF Byte(Head(a)) # Byte(Head(b)) THEN Byte(Head(a)) < Byte(Head(b))
    ELSE StringLess(Tail(a), Tail(b))

\* the local names of the elements a job configuration is made of
ElementNames ==
    {"parameterDefinitions", "StringParameterDefinition",
     "PasswordParameterDefinition", "name", "defaultValue", "choices",
     "string"}

\* the elements a document nests inside an element (Root: at the top level)
Root == "#document"

Children(parent) ==
    CASE parent = Root -> {"parameterDefinitions"}
      [] parent = "parameterDefinitions" ->
             {"StringParameterDefinition", "PasswordParameterDefinition"}
      [] parent \in {"StringParameterDefinition",
                      "PasswordParameterDefinition"} ->
             {"name", "defaultValue", "choices"}
      [] parent = "choices" -> {"string", "name"}
      [] parent = "string" -> {"string"}
      [] OTHER -> {}

\* parameterTypeFromElement on the element names above
parameterTypeFromElement(name) ==
    CASE name = "StringParameterDefinition" ->
             [typ |-> "string", secret |-> FALSE]
      [] name = "PasswordParameterDefinition" ->
             [typ |-> "password", secret |-> TRUE]
      [] name = "defaultValue" -> [typ |-> "defaultvalue", secret |-> FALSE]
      [] OTHER -> [typ |-> name, secret |-> FALSE]

\* &runParameterInfo{Type: typ, IsSecret: secret}
NewParameterInfo(typ, secret) ==
    [Name |-> <<>>, Type |-> typ, Default |-> <<>>, IsSecret |-> secret,
     SampleValues |-> <<>>, Frequency |-> <<0, 1>>]

appendSampleValue(values, value, limit) ==
    IF \E i \in 1..Len(values) : values[i] = value THEN values
    ELSE IF Len(values) >= limit THEN values
    ELSE Append(values, value)

\* the locals of parseParametersFromConfig before the first token; current
\* is a sequence of length 0 (nil) or 1; returned is what the call returned
ParserStart ==
    [stack |-> <<>>, params |-> <<>>, current |-> <<>>, paramDefsDepth |-> -1,
     paramDepth |-> -1, inChoices |-> FALSE, state |-> "reading",
     returned |-> <<>>, redacted |-> FALSE]

newMetadataCollector(enabled) ==
    [enabled |-> enabled, parameters |-> [name \in {} |-> 0], totalRuns |-> 0,
     meta |-> <<>>]

ParamIdle ==
    /\ parser = ParserStart
    /\ collector = newMetadataCollector(FALSE)

\* case xml.StartElement
StartElement(name) ==
    /\ parser.state = "reading"
    /\ Len(parser.stack) < MaxDepth
    /\ name \in Children(IF parser.stack = <<>> THEN Root
                          ELSE parser.stack[Len(parser.stack)])
    /\ LET stack == Append(parser.stack, name)
           depth == Len(stack)
       IN  IF name = "parameterDefinitions"
           THEN parser' = [parser EXCEPT !.stack = stack,
                                         !.paramDefsDepth = depth]
           ELSE IF parser.paramDefsDepth > 0
                   /\ depth = parser.paramDefsDepth + 1
           THEN /\ Len(parser.params) < MaxParams
                /\ LET t == parameterTypeFromElement(name)
                   IN  parser' =
                           [parser EXCEPT
                               !.stack = stack,
                               !.current =
                                   <<NewParameterInfo(t.typ, t.secret)>>,
                               !.paramDepth = depth]
           ELSE IF parser.current # <<>> /\ depth = parser.paramDepth + 1
                   /\ name = "choices"
           THEN parser' = [parser EXCEPT !.stack = stack, !.inChoices = TRUE]
           ELSE parser' = [parser EXCEPT !.stack = stack]
    /\ UNCHANGED <<collector, notParam>>

\* what the character data of an element does to *current
ApplyText(cur, element, text, inChoices) ==
    CASE element = "name" ->
             [cur EXCEPT !.Name = text,
                         !.IsSecret = IF IsLikelySecret(text) THEN TRUE
                                      ELSE @]
      [] element = "defaultValue" ->
             IF ~cur.IsSecret THEN [cur EXCEPT !.Default = text] ELSE cur
      [] element = "string" ->
             IF inChoices /\ ~cur.IsSecret
             THEN [cur EXCEPT
                      !.SampleValues = appendSampleValue(@, text, 5)]
             ELSE cur
      [] OTHER -> cur

\* case xml.CharData, for a text that is not blank after TrimSpace
CharData(text) ==
    /\ parser.state = "reading"
    /\ IF parser.current = <<>> \/ Len(parser.stack) = 0
       THEN UNCHANGED parser
       ELSE parser' =
                [parser EXCEPT
                    !.current =
                        <<ApplyText(parser.current[1],
                                    parser.stack[Len(parser.stack)], text,
                                    parser.inChoices)>>]
    /\ UNCHANGED <<collector, notParam>>

\* a parser that appends *current as the tokens left it
KeepAsRead(cur) == cur

\* a secret parameter loses its default and its sample values
Redact(cur) ==
    IF cur.IsSecret THEN [cur EXCEPT !.Default = <<>>, !.SampleValues = <<>>]
    ELSE cur

\* case xml.EndElement; the decoder only delivers the end of the open element
EndElement ==
    /\ parser.state = "reading"
    /\ Len(parser.stack) > 0
    /\ LET depth == Len(parser.stack)
           name == parser.stack[depth]
           closes == parser.current # <<>> /\ depth = parser.paramDepth
           cur == parser.current[1]
           kept == [cur EXCEPT !.Frequency =
                                   IF @ = <<0, 1>> THEN <<1, 1>> ELSE @]
       IN  parser' =
               [parser EXCEPT
                   !.params = IF closes /\ cur.Name # <<>>
                              THEN Append(@, Redact(kept)) ELSE @,
                   !.redacted = IF closes /\ cur.Name # <<>>
                                THEN @ \/ Redact(kept) # kept ELSE @,
                   !.current = IF closes THEN <<>> ELSE @,
                   !.paramDepth = IF closes THEN -1 ELSE @,
                   !.inChoices = IF closes \/ name = "choices" THEN FALSE
                                 ELSE @,
                   !.stack = SubSeq(@, 1, depth - 1),
                   !.paramDefsDepth = IF name = "parameterDefinitions"
                                      THEN -1 ELSE @]
    /\ UNCHANGED <<collector, notParam>>

\* the orders sort.Slice may leave params in: ascending by lower-cased name
SortedByName(ps) ==
    { q \in [1..Len(ps) -> {ps[i] : i \in 1..Len(ps)}] :
        /\ \A x \in {ps[i] : i \in 1..Len(ps)} :
               Cardinality({i \in 1..Len(ps) : q[i] = x})
                   = Cardinality({i \in 1..Len(ps) : ps[i] = x})
        /\ \A i \in 1..(Len(ps) - 1) :
               ~StringLess(ToLower(q[i + 1].Name), ToLower(q[i].Name)) }

\* io.EOF with every element closed: the sorted params are returned
ParseEOF ==
    /\ parser.state = "reading"
    /\ parser.stack = <<>>
    /\ \E q \in SortedByName(parser.params) :
           parser' = [ParserStart EXCEPT !.state = "returned", !.returned = q,
                                         !.redacted = parser.redacted]
    /\ UNCHANGED <<collector, notParam>>

\* the document ends inside an element: decoder.Token fails, nothing returned
ParseError ==
    /\ parser.state = "reading"
    /\ parser.stack # <<>>
    /\ parser' = [ParserStart EXCEPT !.state = "failed"]
    /\ UNCHANGED <<collector, notParam>>

\* the values a parameter of a run may have
ParamValues == Texts \cup {<<>>, <<" ">>}

\* runInspection.Parameters of the runs observed
RunParameters ==
    UNION { [names -> ParamValues] : names \in SUBSET Texts }

\* the parameterStat of one name after a run with the given value
ObserveOne(stats, name, value) ==
    LET stat == IF name \in DOMAIN stats THEN stats[name]
                ELSE [Count |-> 0, Secret |-> IsLikelySecret(name),
                      Samples |-> {}]
    IN  [stat EXCEPT
            !.Count = @ + 1,
            !.Samples = IF stat.Secret \/ TrimSpace(value) = <<>> THEN @
                        ELSE IF Cardinality(@) < 5 THEN @ \cup {value}
                        ELSE @]

\* metadataCollector.observe
observe(run) ==
    /\ parser.state # "reading"
    /\ collector.meta = <<>>
    /\ collector.totalRuns < MaxRuns
    /\ IF ~collector.enabled THEN UNCHANGED collector
       ELSE collector' =
                [collector EXCEPT
                    !.totalRuns = @ + 1,
                    !.parameters =
                        [name \in DOMAIN @ \cup DOMAIN run |->
                            IF name \in DOMAIN run
                            THEN ObserveOne(collector.parameters, name,
                                            run[name])
                            ELSE collector.parameters[name]]]
    /\ UNCHANGED <<parser, notParam>>

\* sort.Strings of a set of strings
SortStrings(set) ==
    CHOOSE q \in [1..Cardinality(set) -> set] :
        \A i \in 1..(Cardinality(set) - 1) : StringLess(q[i], q[i + 1])

\* the runParameterInfo metadata() builds for one name
ParameterInfoOf(name, stat, totalRuns) ==
    [Name |-> name, Type |-> "", Default |-> <<>>, IsSecret |-> stat.Secret,
     SampleValues |->
         IF ~stat.Secret /\ stat.Samples # {}
         THEN LET samples == SortStrings(stat.Samples)
              IN  SubSeq(samples, 1, Min(Len(samples), 5))
         ELSE <<>>,
     Frequency |-> <<stat.Count, totalRuns>>]

\* metadataCollector.metadata: meta.Parameters, in one of the sorted orders;
\* meta is a sequence of length 0 (not built yet) or 1
metadata ==
    /\ parser.state # "reading"
    /\ collector.meta = <<>>
    /\ IF ~collector.enabled \/ collector.totalRuns = 0
       THEN collector' = [collector EXCEPT !.meta = << <<>> >>]
       ELSE LET ps == { ParameterInfoOf(name, collector.parameters[name],
                                        collector.totalRuns) :
                            name \in DOMAIN collector.parameters }
            IN  \E q \in [1..Cardinality(ps) -> ps] :
                    /\ \A x \in ps : \E i \in DOMAIN q : q[i] = x
                    /\ \A i \in 1..(Cardinality(ps) - 1) :
                           ~StringLess(ToLower(q[i + 1].Name),
                                       ToLower(q[i].Name))
                    /\ collector' = [collector EXCEPT !.meta = <<q>>]
    /\ UNCHANGED <<parser, notParam>>

----------------------------------------------------------------------------
(* The queue wait of run start --follow: waitForBuildNumber polls the      *)
(* queue item until it is cancelled, has a build number, or the deadline   *)
(* has passed.  Time is counted in ticks of half a second on the waiter's  *)
(* own clock, which starts when waitForBuildNumber is entered.             *)

MaxTimeout == 3      \* waitForBuildNumber is entered with up to MaxTimeout ticks
MaxLatency == 2      \* a queue request is answered within MaxLatency ticks

\* time.Sleep(1 * time.Second), in ticks
PollInterval == 2

\* executable.number as Jenkins reports it: not yet known, or the build's
QueueNumbers == {0, 128}

QueueTimeout == "timed out waiting for run to start"

ContextCanceled == "context canceled"

\* queueItemStatus as the server has it; executable is nil (<<>>) or a number
ItemQueued == [cancelled |-> FALSE, why |-> "", executable |-> <<>>]

\* the answer to a non-2xx status: `status` keeps its zero value
ZeroStatus == [cancelled |-> FALSE, why |-> "", executable |-> <<>>]

Resolved(status) ==
    status.cancelled
        \/ (status.executable # <<>> /\ status.executable[1] > 0)

NoReturn == [number |-> 0, err |-> NoError, at |-> 0, took |-> 0]

WaiterIdle ==
    [pc |-> "idle", timeout |-> 0, deadline |-> 0, now |-> 0, sent |-> 0,
     wake |-> 0, ret |-> NoReturn, ctxAtReturn |-> FALSE,
     askedAfterCancel |-> FALSE]

NoExit == [done |-> FALSE, code |-> 0, err |-> NoError]

TriggerIdle ==
    /\ item = ItemQueued
    /\ waiter = WaiterIdle
    /\ cmdExit = NoExit

\* Jenkins cancels the queue item
ItemCancel(why) ==
    /\ waiter.pc \in {"request", "sleep"}
    /\ ~Resolved(item)
    /\ item' = [item EXCEPT !.cancelled = TRUE, !.why = why]
    /\ UNCHANGED <<waiter, cmdExit, notTrigger>>

\* Jenkins assigns the item an executable: without a number yet, or with it
ItemLeavesQueue(n) ==
    /\ waiter.pc \in {"request", "sleep"}
    /\ ~Resolved(item)
    /\ item.executable # <<n>>
    /\ item' = [item EXCEPT !.executable = <<n>>]
    /\ UNCHANGED <<waiter, cmdExit, notTrigger>>

\* waitForBuildNumber returns: its locals are gone, its result stays
WaiterReturn(number, err, timing) ==
    [WaiterIdle EXCEPT
        !.pc = "done",
        !.timeout = IF err = QueueTimeout THEN waiter.timeout ELSE 0,
        !.deadline = IF err = QueueTimeout THEN waiter.deadline ELSE 0,
        !.ret = [number |-> number, err |-> err,
                 at |-> IF err = QueueTimeout THEN timing.at ELSE 0,
                 took |-> IF err = QueueTimeout THEN timing.took ELSE 0],
        !.ctxAtReturn = ctxDone,
        !.askedAfterCancel = waiter.askedAfterCancel]

\* waitForBuildNumber(client, queueLocation, timeout) is entered
WaitStart(hasLocation, timeout) ==
    /\ waiter.pc = "idle"
    /\ IF ~hasLocation
       THEN waiter' =
                WaiterReturn(0, "follow requested but queue location unavailable",
                             [at |-> 0, took |-> 0])
       ELSE waiter' = [waiter EXCEPT !.pc = "request", !.timeout = timeout,
                                     !.deadline = timeout, !.sent = 0,
                                     !.askedAfterCancel = ctxDone]
    /\ UNCHANGED <<item, cmdExit, notTrigger>>

\* half a second passes while a request is in flight or the waiter sleeps
Tick ==
    /\ \/ waiter.pc = "request" /\ waiter.now - waiter.sent < MaxLatency
       \/ waiter.pc = "sleep" /\ waiter.now < waiter.wake
    /\ waiter' = [waiter EXCEPT !.now = @ + 1]
    /\ UNCHANGED <<item, cmdExit, notTrigger>>

\* client.Do on the queue API returns an error
QueueRequestFails ==
    /\ waiter.pc = "request"
    /\ waiter' = WaiterReturn(0, "queue request failed", [at |-> 0, took |-> 0])
    /\ UNCHANGED <<item, cmdExit, notTrigger>>

\* a faulty waiter that gives up at its first check
DeadlinePassedAlways(now, deadline) == TRUE

\* time.Now().After(deadline)
DeadlinePassed(now, deadline) == now > deadline

\* client.Do returned `status`: the checks of the loop body, then the sleep
QueueAnswer(status) ==
    /\ waiter.pc = "request"
    /\ IF status.cancelled
       THEN waiter' =
                WaiterReturn(0, IF status.why # ""
                                THEN "queue item cancelled: why"
                                ELSE "queue item cancelled",
                             [at |-> 0, took |-> 0])
       ELSE IF status.executable # <<>> /\ status.executable[1] > 0
       THEN waiter' = WaiterReturn(status.executable[1], NoError,
                                   [at |-> 0, took |-> 0])
       ELSE IF DeadlinePassed(waiter.now, waiter.deadline)
       THEN waiter' = WaiterReturn(0, QueueTimeout,
                                   [at |-> waiter.now,
                                    took |-> waiter.now - waiter.sent])
       ELSE waiter' = [waiter EXCEPT !.pc = "sleep",
                                     !.wake = waiter.now + PollInterval]
    /\ UNCHANGED <<item, cmdExit, notTrigger>>

\* the sleep is over: the next iteration sends its request
WakeUp ==
    /\ waiter.pc = "sleep"
    /\ waiter.now = waiter.wake
    /\ waiter' = [waiter EXCEPT !.pc = "request", !.sent = waiter.now,
                                !.askedAfterCancel = @ \/ ctxDone]
    /\ UNCHANGED <<item, cmdExit, notTrigger>>

\* a faulty exitCodeForResult that always reports success
exitCodeZero(res) == 0

\* exitCodeForResult
exitCodeForResult(res) ==
    CASE ToUpper(res) = "SUCCESS" -> 0
      [] ToUpper(res) = "UNSTABLE" -> 10
      [] ToUpper(res) = "FAILURE" -> 11
      [] ToUpper(res) = "ABORTED" -> 12
      [] ToUpper(res) = "NOT_BUILT" -> 13
      [] OTHER -> 0

\* the exit code jkcmd gives the error a command returned
ExitOf(err) == IF err = NoError THEN 0 ELSE 1

\* followTriggeredRun: waitForBuildNumber failed, its error is returned
FollowWaitFailed ==
    /\ ~cmdExit.done
    /\ waiter.pc = "done"
    /\ waiter.ret.err # NoError
    /\ cmdExit' = [done |-> TRUE, code |-> ExitOf(waiter.ret.err),
                   err |-> waiter.ret.err]
    /\ UNCHANGED <<item, waiter, notTrigger>>

\* followTriggeredRun: the build number is known, monitorRun is entered
FollowResolved ==
    /\ ~cmdExit.done
    /\ waiter.pc = "done"
    /\ waiter.ret.err = NoError
    /\ monitor.pc = "none"
    /\ monitor' = [monitor EXCEPT !.pc = "start"]
    /\ UNCHANGED <<logLen, logGen, building, result, streamLogs, ctxDone,
                   logCtxDone, logErrCh, follower, out, logClean>>
    /\ UNCHANGED <<item, waiter, cmdExit, notFollowNorTrigger>>

\* followTriggeredRun after monitorRun returned: with --json or --yaml the
\* run detail is fetched and printed (the fetch may fail); the exit code is
\* taken from monitorRun's result
FollowReturn(fetchFails) ==
    /\ ~cmdExit.done
    /\ monitor.pc = "done"
    /\ fetchFails => (monitor.ret.err = NoError /\ ~streamLogs)
    /\ IF monitor.ret.err # NoError
       THEN /\ cmdExit' = [done |-> TRUE, code |-> ExitOf(monitor.ret.err),
                           err |-> monitor.ret.err]
            /\ UNCHANGED out
       ELSE IF fetchFails
       THEN /\ cmdExit' = [done |-> TRUE, code |-> 1,
                           err |-> "status request failed"]
            /\ UNCHANGED out
       ELSE /\ cmdExit' = [done |-> TRUE,
                           code |-> exitCodeForResult(monitor.ret.result),
                           err |-> NoError]
            /\ out' = IF streamLogs THEN out
                      ELSE Append(out, [kind |-> "detail",
                                        number |-> StatusDetail.number])
    /\ UNCHANGED <<logLen, logGen, building, result, streamLogs, ctxDone,
                   logCtxDone, logErrCh, follower, monitor, logClean>>
    /\ UNCHANGED <<item, waiter, notFollowNorTrigger>>

\* the results exitCodeForResult is called with
ResultInputs ==
    {"SUCCESS", "UNSTABLE", "FAILURE", "ABORTED", "NOT_BUILT", "UNKNOWN", "",
     "unstable", "failure", "Success", "not_built"}

MaxCalls == 2

PureIdle == calls = <<>>

\* exitCodeForResult(res) is called
ExitCodeCall(res) ==
    /\ Len(calls) < MaxCalls
    /\ calls' = Append(calls, [input |-> res, output |-> exitCodeForResult(res)])
    /\ UNCHANGED notPure

----------------------------------------------------------------------------
(* The log snapshot: CollectLogSnapshot reads the progressive log until    *)
(* the server reports no more data, a chunk is empty, maxBytes are read or *)
(* the iteration cap is reached.  The server is free in its first          *)
(* FreeSteps answers and repeats one answer from then on.                  *)

FreeSteps == 2

\* the cap of the loop: for i := 0; i < 1000; i++
snapshotCap == 1000

\* maxBytes = 512 * 1024 when the caller passes none
defaultMaxBytes == 512 * 1024

\* the maxBytes a snapshot is asked with
MaxBytesInputs == {0, 1, 262145}

\* the sizes of the chunks a server sends
ChunkSizes == {0, 1, 262144}

\* what one request of the snapshot can end in
SnapshotAnswers ==
    {[kind |-> k, size |-> 0, more |-> FALSE] :
         k \in {"error", "416", "nobody", "readerr", "closeerr", "readcloseerr"}}
        \cup {[kind |-> k, size |-> n, more |-> m] :
                  k \in {"chunk", "writeerr"}, n \in ChunkSizes, m \in BOOLEAN}

SnapIdle ==
    [pc |-> "idle", given |-> 0, maxBytes |-> 0, i |-> 0, offset |-> 0, total |-> 0,
     truncated |-> FALSE, steady |-> [kind |-> "error", size |-> 0,
                                      more |-> FALSE],
     asked |-> 0, written |-> 0, lastChunk |-> 0,
     resp |-> [kind |-> "none", size |-> 0, more |-> FALSE], open |-> 0,
     ret |-> [truncated |-> FALSE, err |-> NoError, why |-> "none"]]

SnapshotIdle == snap = SnapIdle

\* if maxBytes <= 0 { maxBytes = 512 * 1024 }
EffectiveMaxBytes(maxBytes) ==
    IF maxBytes <= 0 THEN defaultMaxBytes ELSE maxBytes

\* CollectLogSnapshot is entered; steady is the answer the server settles on
SnapshotStart(maxBytes, steady) ==
    /\ snap.pc = "idle"
    /\ snap' = [snap EXCEPT !.pc = "loop", !.given = maxBytes,
                            !.maxBytes = EffectiveMaxBytes(maxBytes),
                            !.steady = steady]
    /\ UNCHANGED notSnapshot

\* return truncated, err
SnapshotReturn(s, truncated, err, why) ==
    [s EXCEPT !.pc = "done",
              !.ret = [truncated |-> truncated, err |-> err, why |-> why]]

\* the loop condition fails: return true, nil
SnapshotCapReached ==
    /\ snap.pc = "loop"
    /\ ~(snap.i < snapshotCap)
    /\ snap' = SnapshotReturn(snap, TRUE, NoError, "cap")
    /\ UNCHANGED notSnapshot

\* the context is found cancelled at the top of an iteration
SnapshotCancelled ==
    /\ snap.pc = "loop"
    /\ snap.i < snapshotCap
    /\ ctxDone
    /\ snap' = SnapshotReturn(snap, snap.truncated, ContextCanceled, "ctx")
    /\ UNCHANGED notSnapshot

\* a faulty snapshot that does not count the iterations answered 416
After416Uncounted(i) == i

\* continue after a 416: the loop's i++
After416(i) == i + 1

\* a faulty snapshot without the byte limit
LimitReachedNever(total, maxBytes) == FALSE

\* case total >= maxBytes
LimitReached(total, maxBytes) == total >= maxBytes

\* readAndClose: io.ReadAll, then Close; a close error is joined to the
\* read error, or returned alone
readAndClose(readFails, closeFails) ==
    CASE readFails /\ closeFails -> "read failed; close log stream"
      [] readFails -> "read failed"
      [] closeFails -> "close log stream"
      [] OTHER -> NoError

\* fmt.Errorf("read log chunk: %w", err)
ReadChunkError(err) ==
    CASE err = "read failed; close log stream" ->
             "read log chunk: read failed; close log stream"
      [] err = "read failed" -> "read log chunk: read failed"
      [] OTHER -> "read log chunk: close log stream"

\* a snapshot that takes an empty chunk for progress
StalledNever(size) == FALSE

\* case len(chunk) == 0
Stalled(size) == size = 0

\* one iteration whose request is answered with a; resp is the answer and
\* open counts the response bodies that were handed over and not closed
SnapshotIteration(a) ==
    /\ snap.pc = "loop"
    /\ snap.i < snapshotCap
    /\ a = snap.steady \/ snap.asked < FreeSteps
    /\ LET s == [snap EXCEPT !.asked = @ + 1, !.resp = a]
           wrote == [s EXCEPT !.total = @ + a.size, !.written = @ + a.size,
                              !.lastChunk = IF a.size > 0 THEN a.size ELSE @,
                              !.offset = @ + a.size]
       IN  CASE a.kind = "error" ->
                    snap' = SnapshotReturn(s, s.truncated,
                                           IF ctxDone THEN ContextCanceled
                                           ELSE "request failed", "error")
             [] a.kind = "416" ->
                    snap' = [s EXCEPT !.offset = 0, !.i = After416(@),
                                      !.open = @ + 1]
             [] a.kind = "nobody" ->
                    snap' = SnapshotReturn(s, s.truncated,
                                           "log stream returned empty body",
                                           "error")
             [] a.kind \in {"readerr", "closeerr", "readcloseerr"} ->
                    snap' = SnapshotReturn(
                                s, s.truncated,
                                ReadChunkError(
                                    readAndClose(a.kind \in {"readerr", "readcloseerr"},
                                                 a.kind \in {"closeerr", "readcloseerr"})),
                                "error")
             [] a.kind = "writeerr" ->
                    /\ a.size > 0
                    /\ \E n \in {0, a.size} :
                           snap' = SnapshotReturn(
                                       [s EXCEPT !.written = @ + n,
                                                 !.lastChunk =
                                                     IF n > 0 THEN n ELSE @],
                                       s.truncated, "write failed", "error")
             [] a.kind = "chunk" ->
                    IF ~a.more
                    THEN snap' = SnapshotReturn(wrote, wrote.truncated,
                                                NoError, "end")
                    ELSE IF Stalled(a.size)
                    THEN snap' = SnapshotReturn(wrote, TRUE, NoError, "empty")
                    ELSE IF LimitReached(wrote.total, wrote.maxBytes)
                    THEN snap' = SnapshotReturn(wrote, TRUE, NoError, "limit")
                    ELSE snap' = [wrote EXCEPT !.i = @ + 1]
    /\ UNCHANGED notSnapshot

----------------------------------------------------------------------------
(* The capability cache of the client *)

MaxNow == 2          \* the clock runs for MaxNow ticks of half a minute

\* capabilityCacheTTL = time.Minute, in ticks of half a minute
capabilityCacheTTL == 2

\* the zero time.Time of a Client that never completed a probe round: further
\* back than the TTL from every instant of the clock
ZeroTime == 0 - capabilityCacheTTL

NoCapabilities == {}

\* the answers of GET /jk/api/status: a transport error, or a status with the
\* features listed in the body
StatusAnswers ==
    {[err |-> TRUE, status |-> 0, features |-> {}],
     [err |-> FALSE, status |-> 404, features |-> {}],
     [err |-> FALSE, status |-> 200, features |-> {}],
     [err |-> FALSE, status |-> 200, features |-> {"runs", "events", "other"}]}

\* the switch over the features of a 200 answer in refreshCapabilities
FeatureCapability(feature) ==
    CASE feature = "runs" -> {"RunsFacade"}
      [] feature = "credentials" -> {"CredentialFacade"}
      [] feature = "events" -> {"Events"}
      [] OTHER -> {}

StatusCapabilities(a) ==
    IF a.status = 200
    THEN UNION {FeatureCapability(f) : f \in a.features}
    ELSE NoCapabilities

\* probeEndpoint: whether HEAD path was answered with a status in 200..399
ProbeStatuses == {0, 200, 404}

probeEndpoint(status) == status >= 200 /\ status < 400

\* a call of Capabilities(): its position, the caps of its probe round, what
\* it returns, and its history: the cache was a minute old or older when the
\* call read it (staleAtRead) and when it took the write lock (staleAtLock),
\* and the call has sent a request (probed)
IdleCall == [pc |-> "idle", caps |-> NoCapabilities, staleAtLock |-> FALSE,
             ret |-> NoCapabilities, staleAtRead |-> FALSE, probed |-> FALSE]

\* NewClient ran refreshCapabilities once, at tick 0: the round either failed
\* at /jk/api/status and left the zero time, or stored what it found
ProbedAtStart ==
    {StatusCapabilities(a) \cup sse \cup prom :
        a \in {s \in StatusAnswers : ~s.err},
        sse \in {{}, {"SSEGateway"}}, prom \in {{}, {"Prometheus"}}}

CapIdle ==
    /\ capabilities = NoCapabilities
    /\ lastCapProbe = ZeroTime
    /\ capMu = 0
    /\ wallClock = 0
    /\ capCall = [t \in Tasks |-> IdleCall]

SetCall(t, r) == capCall' = [capCall EXCEPT ![t] = r]

\* a cache that still counts as fresh when it is exactly one TTL old
FreshInclusive(at, probed) == at - probed <= capabilityCacheTTL

\* time.Since(c.lastCapProbe) < capabilityCacheTTL
Fresh(at, probed) == at - probed < capabilityCacheTTL

\* time passes
CapTick ==
    /\ wallClock < MaxNow
    /\ wallClock' = wallClock + 1
    /\ UNCHANGED <<capabilities, lastCapProbe, capMu, capCall>>
    /\ UNCHANGED notCaps

\* Capabilities(ctx), its first read section under capMu.RLock(): the cached
\* value when it is younger than the TTL, otherwise on to refreshCapabilities
Capabilities(t) ==
    /\ capCall[t].pc = "idle"
    /\ capMu = 0
    /\ IF Fresh(wallClock, lastCapProbe)
       THEN SetCall(t, [IdleCall EXCEPT
                           !.pc = "done", !.ret = capabilities,
                           !.staleAtRead = wallClock - lastCapProbe >= capabilityCacheTTL])
       ELSE SetCall(t, [IdleCall EXCEPT
                           !.pc = "lock",
                           !.staleAtRead = wallClock - lastCapProbe >= capabilityCacheTTL])
    /\ UNCHANGED <<capabilities, lastCapProbe, capMu, wallClock>>
    /\ UNCHANGED notCaps

\* refreshCapabilities takes capMu.Lock() and, whatever the age of the cache
\* by then, sends GET /jk/api/status; staleAtLock records that age
refreshCapabilities(t) ==
    /\ capCall[t].pc = "lock"
    /\ capMu = 0
    /\ capMu' = t
    /\ SetCall(t, [capCall[t] EXCEPT
                      !.pc = "status", !.probed = TRUE,
                      !.staleAtLock = ~Fresh(wallClock, lastCapProbe)])
    /\ UNCHANGED <<capabilities, lastCapProbe, wallClock>>
    /\ UNCHANGED notCaps

\* the answer a of /jk/api/status: an error ends the round and leaves the cache
\* as it was, anything else starts the round's capabilities
StatusAnswer(t, a) ==
    /\ capCall[t].pc = "status"
    /\ IF a.err
       THEN /\ capMu' = 0
            /\ SetCall(t, [capCall[t] EXCEPT !.pc = "reread", !.staleAtLock = FALSE])
       ELSE /\ SetCall(t, [capCall[t] EXCEPT
                              !.pc = "events", !.caps = StatusCapabilities(a)])
            /\ UNCHANGED capMu
    /\ UNCHANGED <<capabilities, lastCapProbe, wallClock>>
    /\ UNCHANGED notCaps

\* HEAD /sse-gateway/stats
EventsProbe(t, status) ==
    /\ capCall[t].pc = "events"
    /\ SetCall(t, [capCall[t] EXCEPT
                      !.pc = "prometheus",
                      !.caps = IF probeEndpoint(status)
                               THEN @ \cup {"SSEGateway"} ELSE @])
    /\ UNCHANGED <<capabilities, lastCapProbe, capMu, wallClock>>
    /\ UNCHANGED notCaps

\* HEAD /prometheus, then the round is stored with its time and capMu released
PrometheusProbe(t, status) ==
    /\ capCall[t].pc = "prometheus"
    /\ capabilities' = IF probeEndpoint(status)
                       THEN capCall[t].caps \cup {"Prometheus"}
                       ELSE capCall[t].caps
    /\ lastCapProbe' = wallClock
    /\ capMu' = 0
    /\ SetCall(t, [capCall[t] EXCEPT
                      !.pc = "reread", !.caps = NoCapabilities,
                      !.staleAtLock = FALSE])
    /\ UNCHANGED wallClock
    /\ UNCHANGED notCaps

\* Capabilities(ctx), its second read section under capMu.RLock()
CapabilitiesReread(t) ==
    /\ capCall[t].pc = "reread"
    /\ capMu = 0
    /\ SetCall(t, [capCall[t] EXCEPT !.pc = "done", !.ret = capabilities])
    /\ UNCHANGED <<capabilities, lastCapProbe, capMu, wallClock>>
    /\ UNCHANGED notCaps

\* the call has returned
CapabilitiesReturn(t) ==
    /\ capCall[t].pc = "done"
    /\ SetCall(t, IdleCall)
    /\ UNCHANGED <<capabilities, lastCapProbe, capMu, wallClock>>
    /\ UNCHANGED notCaps

----------------------------------------------------------------------------
(* The config store: Config with its contexts and the active name.  Every  *)
(* method holds c.mu for its whole body, so each is one step.  The store   *)
(* starts as Load returns it when no config file exists.                   *)

ContextNames == {"", "dev", "prod"}

\* a *Context: a connection, or a nil pointer
ContextValues == {"https://ci", "nil"}

ErrContextNotFound == "context not found"

NoContexts == [k \in {} |-> "nil"]

NoOp == [op |-> "none", name |-> "", err |-> "nil", ctx |-> "nil"]

ConfigIdle == Contexts = NoContexts /\ Active = "" /\ lastOp = NoOp

\* delete(c.Contexts, name)
Delete(m, name) == [k \in DOMAIN m \ {name} |-> m[k]]

\* an active name that outlives the removal of its context
ActiveKept(active, name) == active

\* if c.Active == name { c.Active = "" }
ActiveAfterRemove(active, name) == IF active = name THEN "" ELSE active

SetContext(name, ctx) ==
    /\ Contexts' = (name :> ctx) @@ Contexts
    /\ lastOp' = [op |-> "SetContext", name |-> name, err |-> "nil", ctx |-> ctx]
    /\ UNCHANGED <<Active, notConfig>>

RemoveContext(name) ==
    /\ Contexts' = Delete(Contexts, name)
    /\ Active' = ActiveAfterRemove(Active, name)
    /\ lastOp' = [op |-> "RemoveContext", name |-> name, err |-> "nil", ctx |-> "nil"]
    /\ UNCHANGED notConfig

SetActive(name) ==
    /\ IF name = ""
       THEN /\ Active' = ""
            /\ lastOp' = [op |-> "SetActive", name |-> name, err |-> "nil", ctx |-> "nil"]
       ELSE IF name \notin DOMAIN Contexts
       THEN /\ Active' = Active
            /\ lastOp' = [op |-> "SetActive", name |-> name,
                          err |-> ErrContextNotFound, ctx |-> "nil"]
       ELSE /\ Active' = name
            /\ lastOp' = [op |-> "SetActive", name |-> name, err |-> "nil", ctx |-> "nil"]
    /\ UNCHANGED <<Contexts, notConfig>>

ActiveContext ==
    /\ lastOp' = IF Active = ""
                 THEN [op |-> "ActiveContext", name |-> "", err |-> "nil", ctx |-> "nil"]
                 ELSE IF Active \notin DOMAIN Contexts
                 THEN [op |-> "ActiveContext", name |-> Active,
                       err |-> ErrContextNotFound, ctx |-> "nil"]
                 ELSE [op |-> "ActiveContext", name |-> Active, err |-> "nil",
                       ctx |-> Contexts[Active]]
    /\ UNCHANGED <<Contexts, Active, notConfig>>

----------------------------------------------------------------------------
(* Job discovery: discoverJobs and walkAndAddAllBranches *)

\* job names, as the characters they are made of
ToolsName == <<"T","o","o","l","s">>

AdaName == <<"a","d","a">>

LibName == <<"l","i","b">>

MasterName == <<"m","a","s","t","e","r">>

PRName == <<"P","R","-","2","2">>

SubName == <<"s","u","b">>

XName == <<"x">>

\* the _class strings of the items a listing names
FreeStyleClass == "hudson.model.FreeStyleProject"

WorkflowJobClass == "org.jenkinsci.plugins.workflow.job.WorkflowJob"

FolderClass == "com.cloudbees.hudson.plugins.folder.Folder"

OrganizationClass == "jenkins.branch.OrganizationFolder"

MultibranchClass ==
    "org.jenkinsci.plugins.workflow.multibranch.WorkflowMultiBranchProject"

\* the classes whose name, in lower case, contains "multibranch"
isMultibranchClass(className) == className = MultibranchClass

\* the classes whose name, in lower case, contains "folder" and not
\* "multibranch"
isFolderClass(className) ==
    className \in {FolderClass, OrganizationClass} /\ ~isMultibranchClass(className)

\* the root of the server (folderPath "") and the paths below it, each the
\* sequence of its names
RootPath == <<>>

\* joinJobPath(parent, child)
joinJobPath(parent, child) == Append(parent, child)

\* the path as one string: its names with "/" between them
RECURSIVE JoinPath(_)
JoinPath(path) ==
    IF path = <<>> THEN <<>>
    ELSE IF Len(path) = 1 THEN path[1]
    ELSE path[1] \o <<"/">> \o JoinPath(Tail(path))

\* the glob patterns of the search: "", "*ada*", "ada", "Tools/ada", "*",
\* "PR*" and "lib"
Globs ==
    {<<>>, <<"*","a","d","a","*">>, AdaName, JoinPath(<<ToolsName, AdaName>>),
     <<"*">>, <<"P","R","*">>, LibName}

\* doublestar.Match for patterns of literal characters and "*": a "*" stands
\* for any run of characters other than "/"
RECURSIVE GlobMatch(_, _)
GlobMatch(p, s) ==
    IF p = <<>> THEN s = <<>>
    ELSE IF Head(p) = "*"
    THEN \/ GlobMatch(Tail(p), s)
         \/ s # <<>> /\ Head(s) # "/" /\ GlobMatch(p, Tail(s))
    ELSE s # <<>> /\ Head(s) = Head(p) /\ GlobMatch(Tail(p), Tail(s))

\* matchJobGlob(glob, folder, jobPath): the full path, the base name, a
\* parent component, or the path relative to the folder
matchJobGlob(glob, folder, jobPath) ==
    \/ glob = <<>>
    \/ GlobMatch(glob, JoinPath(jobPath))
    \/ GlobMatch(glob, jobPath[Len(jobPath)])
    \/ \E i \in 1..(Len(jobPath) - 1) : GlobMatch(glob, jobPath[i])
    \/ /\ folder # <<>>
       /\ Len(jobPath) > Len(folder)
       /\ SubSeq(jobPath, 1, Len(folder)) = folder
       /\ GlobMatch(glob, JoinPath(SubSeq(jobPath, Len(folder) + 1, Len(jobPath))))

\* the trees a server may hold: Tools at the top, ada and lib in it, the
\* branches master and PR-22 and the item sub in ada, x in sub, master in lib
Item(name, class) == [Name |-> name, Class |-> class]

JobTrees ==
    {(RootPath :> <<Item(ToolsName, FolderClass)>>)
       @@ (<<ToolsName>> :> <<Item(AdaName, ada), Item(LibName, lib)>>)
       @@ (<<ToolsName, AdaName>> :>
              <<Item(MasterName, WorkflowJobClass), Item(SubName, sub),
                Item(PRName, WorkflowJobClass)>>)
       @@ (<<ToolsName, AdaName, SubName>> :> <<Item(XName, FreeStyleClass)>>)
       @@ (<<ToolsName, LibName>> :> <<Item(MasterName, WorkflowJobClass)>>) :
        ada \in {MultibranchClass, FolderClass},
        lib \in {MultibranchClass, FreeStyleClass},
        sub \in {FolderClass, MultibranchClass, FreeStyleClass, OrganizationClass}}

\* the folders a search starts from, and the depths it is limited to (the
\* command's default is 5)
FolderPaths == {RootPath, <<ToolsName>>}

DepthLimits == {1, 5}

\* what a listing request is answered with: the jobs of the path or 404 when
\* the server has none, or a failure of the server or of the transport
ListAnswers(path) ==
    {[err |-> TRUE, status |-> 0, jobs |-> <<>>],
     [err |-> FALSE, status |-> 500, jobs |-> <<>>],
     IF path \in DOMAIN jobTree
     THEN [err |-> FALSE, status |-> 200, jobs |-> jobTree[path]]
     ELSE [err |-> FALSE, status |-> 404, jobs |-> <<>>]}

\* the path the next listing request is for
NextListed == IF disc.stack = <<>> THEN RootPath ELSE Head(disc.stack).path

\* sort.Strings on the paths
RECURSIVE InsertPath(_, _)
InsertPath(x, s) ==
    IF s = <<>> THEN <<x>>
    ELSE IF StringLess(JoinPath(x), JoinPath(Head(s))) THEN <<x>> \o s
    ELSE <<Head(s)>> \o InsertPath(x, Tail(s))

RECURSIVE SortPaths(_)
SortPaths(s) == IF s = <<>> THEN <<>> ELSE InsertPath(Head(s), SortPaths(Tail(s)))

\* discoverJobs at rest; stack holds the calls of walk that have not
\* returned, innermost first: a call about to list its path ("walk"), a call
\* in its loop over the jobs listed ("loop"), and walkAndAddAllBranches about
\* to list the branches ("branches"); requests is the history of the listing
\* requests sent
DiscNotStarted ==
    [pc |-> "idle", folder |-> RootPath, glob |-> <<>>, maxDepth |-> 0,
     stack |-> <<>>, results |-> <<>>, visited |-> {}, requests |-> <<>>,
     ret |-> [results |-> <<>>, err |-> NoError]]

DiscIdle ==
    /\ jobTree = (RootPath :> <<>>)
    /\ disc = DiscNotStarted

Frame(kind, path, depth, jobs) ==
    [kind |-> kind, path |-> path, depth |-> depth, jobs |-> jobs]

\* if _, ok := visited[p]; !ok { visited[p] = struct{}{}; results = append(results, p) }
AddResult(d, p) ==
    IF p \in d.visited THEN d
    ELSE [d EXCEPT !.visited = @ \cup {p}, !.results = Append(@, p)]

\* the branches walkAndAddAllBranches adds: not the nested folders
IsBranchAlways(className) == TRUE

IsBranch(className) == ~isFolderClass(className) /\ ~isMultibranchClass(className)

\* discoverJobs returns: the sorted results, or nil and the error
DiscoverReturn(d, err) ==
    [d EXCEPT !.pc = "done", !.stack = <<>>,
              !.ret = IF err = NoError
                      THEN [results |-> SortPaths(d.results), err |-> NoError]
                      ELSE [results |-> <<>>, err |-> err]]

\* the code between two listing requests: the loop over the jobs listed, the
\* returns of finished calls, and the calls that return at once because they
\* are deeper than maxDepth
RECURSIVE Advance(_)
Advance(d) ==
    IF d.stack = <<>> THEN DiscoverReturn(d, NoError)
    ELSE LET top == Head(d.stack)
             rest == Tail(d.stack)
         IN  IF top.kind = "branches" THEN d
             ELSE IF top.kind = "walk"
             THEN IF top.depth > d.maxDepth
                  THEN Advance([d EXCEPT !.stack = rest])
                  ELSE d
             ELSE IF top.jobs = <<>> THEN Advance([d EXCEPT !.stack = rest])
             ELSE LET job == Head(top.jobs)
                      childPath == joinJobPath(top.path, job.Name)
                      matches == matchJobGlob(d.glob, d.folder, childPath)
                      after == <<[top EXCEPT !.jobs = Tail(@)]>> \o rest
                      call(kind) == <<Frame(kind, childPath, top.depth + 1, <<>>)>>
                  IN  IF isMultibranchClass(job.Class)
                      THEN IF matches
                           THEN [d EXCEPT !.stack = call("branches") \o after]
                           ELSE Advance([d EXCEPT !.stack = call("walk") \o after])
                      ELSE IF isFolderClass(job.Class)
                      THEN Advance([d EXCEPT !.stack = call("walk") \o after])
                      ELSE IF matches
                      THEN Advance(AddResult([d EXCEPT !.stack = after], childPath))
                      ELSE Advance([d EXCEPT !.stack = after])

\* discoverJobs(ctx, client, folderPath, jobGlob, maxDepth) is called on a
\* server holding tree
DiscoverStart(tree, folder, glob, maxDepth) ==
    /\ disc.pc = "idle"
    /\ jobTree' = tree
    /\ disc' = Advance([DiscNotStarted EXCEPT
                           !.pc = "walking", !.folder = folder, !.glob = glob,
                           !.maxDepth = maxDepth,
                           !.stack = <<Frame("walk", folder, 0, <<>>)>>])
    /\ UNCHANGED notDisc

Listed(d, top) ==
    [d EXCEPT !.requests = Append(@, [kind |-> top.kind, path |-> top.path,
                                      depth |-> top.depth])]

\* walk(current, depth) lists its path and goes through the jobs listed, up to
\* the next listing request
ListJobs(a) ==
    /\ disc.pc = "walking"
    /\ Head(disc.stack).kind = "walk"
    /\ LET top == Head(disc.stack)
           d == Listed(disc, top)
           popped == [d EXCEPT !.stack = Tail(@)]
       IN  disc' =
               IF a.err THEN DiscoverReturn(d, "request failed")
               ELSE IF a.status = 404 /\ top.path # RootPath
               THEN IF matchJobGlob(d.glob, d.folder, top.path)
                    THEN Advance(AddResult(popped, top.path))
                    ELSE Advance(popped)
               ELSE IF a.status >= 400 THEN DiscoverReturn(d, "list jobs")
               ELSE Advance([d EXCEPT !.stack =
                                <<Frame("loop", top.path, top.depth, a.jobs)>>
                                    \o Tail(@)])
    /\ UNCHANGED jobTree
    /\ UNCHANGED notDisc

\* the branches listed that walkAndAddAllBranches adds, in their order
RECURSIVE AddBranches(_, _, _)
AddBranches(d, path, jobs) ==
    IF jobs = <<>> THEN d
    ELSE LET branch == Head(jobs)
             branchPath == joinJobPath(path, branch.Name)
         IN  AddBranches(IF IsBranch(branch.Class) THEN AddResult(d, branchPath)
                         ELSE d,
                         path, Tail(jobs))

\* walkAndAddAllBranches(ctx, client, multibranchPath, &results, visited)
\* lists the matched multibranch project and adds its branches
ListBranches(a) ==
    /\ disc.pc = "walking"
    /\ Head(disc.stack).kind = "branches"
    /\ LET top == Head(disc.stack)
           d == Listed(disc, top)
       IN  disc' =
               IF a.err THEN DiscoverReturn(d, "request failed")
               ELSE IF a.status >= 400 THEN DiscoverReturn(d, "list branches")
               ELSE Advance(AddBranches([d EXCEPT !.stack = Tail(@)],
                                        top.path, a.jobs))
    /\ UNCHANGED jobTree
    /\ UNCHANGED notDisc

\* the caller has the result; the next search can start
DiscoverDone ==
    /\ disc.pc = "done"
    /\ disc' = DiscNotStarted
    /\ UNCHANGED jobTree
    /\ UNCHANGED notDisc

\* no component added after the run list is in use
ElsewhereIdle == ParamIdle /\ TriggerIdle /\ PureIdle /\ SnapshotIdle /\ CapIdle /\ DiscIdle /\ ConfigIdle

----------------------------------------------------------------------------
(* The trigger-follow machine with its follower and the server *)

HttpIdle ==
    /\ crumb = NoCrumb
    /\ crumbUnsupported = FALSE
    /\ crumbMu = 0
    /\ task = [t \in Tasks |-> IdleTask]
    /\ issuer = NoFetch

\* no build is followed
FollowIdle ==
    /\ logLen = 0
    /\ logGen = 0
    /\ building = FALSE
    /\ result = ""
    /\ streamLogs = FALSE
    /\ ctxDone = FALSE
    /\ logCtxDone = FALSE
    /\ logErrCh = <<>>
    /\ follower = [pc |-> "idle", offset |-> 0, resp |-> <<>>, ret |-> NoError,
                   restarts |-> 0, left |-> NotLeft]
    /\ monitor = [pc |-> "none", detail |-> ZeroDetail, polls |-> "none",
                  beats |-> 0, received |-> 0, ferr |-> NoError,
                  ret |-> [result |-> "", err |-> NoError]]
    /\ out = <<>>
    /\ logClean = TRUE

InitFollow ==
    /\ HttpIdle
    /\ ElsewhereIdle
    /\ RunIdle
    /\ logLen = 0
    /\ logGen = 0
    /\ building = TRUE
    /\ result = ""
    /\ streamLogs \in BOOLEAN
    /\ ctxDone = FALSE
    /\ logCtxDone = FALSE
    /\ logErrCh = <<>>
    /\ follower = [pc |-> "idle", offset |-> 0, resp |-> <<>>, ret |-> NoError,
                   restarts |-> 0, left |-> NotLeft]
    /\ monitor = [pc |-> "start", detail |-> ZeroDetail, polls |-> "none",
                  beats |-> 0, received |-> 0, ferr |-> NoError, ret |-> [result |-> "", err |-> NoError]]
    /\ out = <<>>
    /\ logClean = TRUE

\* The log of the followed build is append-only in this specification, so no
\* start offset exceeds it and no 416 arises; truncation and the 416 path are
\* part of SpecLog below.
NextFollow ==
    \/ ServerAppend
    \/ \E r \in Results : ServerFinish(r)
    \/ CtxCancel
    \/ FollowerTop
    \/ FollowerRequestError
    \/ FollowerEmptyBody
    \/ FollowerResponse
    \/ FollowerReadError
    \/ FollowerWriteError
    \/ FollowerChunk
    \/ MonitorStart
    \/ MonitorPollError
    \/ MonitorFinished(StatusDetail, "200")
    \/ MonitorFinished(ZeroDetail, "non-2xx")
    \/ \E beat \in BOOLEAN : MonitorRunning(beat)
    \/ MonitorDrain
    \/ MonitorAwait

SpecFollow == InitFollow /\ [][NextFollow]_vars

----------------------------------------------------------------------------
(* jk log --follow: StreamProgressiveLog on cmd.Context(), against a server *)
(* whose log may also be truncated                                          *)

InitLog ==
    /\ HttpIdle
    /\ ElsewhereIdle
    /\ RunIdle
    /\ logLen = 0
    /\ logGen = 0
    /\ building = TRUE
    /\ result = ""
    /\ streamLogs = TRUE
    /\ ctxDone = FALSE
    /\ logCtxDone = FALSE
    /\ logErrCh = <<>>
    /\ follower = [pc |-> "top", offset |-> 0, resp |-> <<>>, ret |-> NoError,
                   restarts |-> 0, left |-> NotLeft]
    /\ monitor = [pc |-> "none", detail |-> ZeroDetail, polls |-> "none",
                  beats |-> 0, received |-> 0, ferr |-> NoError, ret |-> [result |-> "", err |-> NoError]]
    /\ out = <<>>
    /\ logClean = TRUE

NextLog ==
    \/ ServerAppend
    \/ ServerRotate
    \/ \E r \in Results : ServerFinish(r)
    \/ CtxCancel
    \/ FollowerTop
    \/ FollowerRequestError
    \/ Follower416
    \/ FollowerEmptyBody
    \/ FollowerResponse
    \/ FollowerReadError
    \/ FollowerWriteError
    \/ FollowerChunk

SpecLog == InitLog /\ [][NextLog]_vars

----------------------------------------------------------------------------
(* jk run ls against one job *)

InitRunList ==
    /\ HttpIdle
    /\ ElsewhereIdle
    /\ FollowIdle
    /\ builds \in Jobs
    /\ session = NoSession
    /\ last = NoCall

NextRunList ==
    \/ RunListFirst
    \/ RunListNext
    \/ \E p \in JobPaths : RunListReplay(p)
    \/ \E p \in JobPaths, c \in CraftedCursors : RunListCrafted(p, c)
    \/ RunListRequestFails

SpecRunList == InitRunList /\ [][NextRunList]_vars

----------------------------------------------------------------------------
(* Properties of the trigger-follow machine *)

Kinds(k) == {i \in DOMAIN out : out[i].kind = k}

\* C2: with live logs, once the status poll saw the build finished, the log
\* follower is cancelled and its result has been received before the line
\* "Run #N completed with status R" is written, and no log chunk is written
\* to the output after that line.
C2_FollowerDoneBeforeStatusLine ==
    /\ \A i \in Kinds("status") : \A j \in Kinds("chunk") : j < i
    /\ Kinds("status") # {} =>
          /\ logCtxDone
          /\ follower.pc = "exited"
          /\ monitor.received = 1
          /\ logErrCh = <<>>

\* C2 witness: the status line was written after log chunks, for a build the
\* status endpoint reported finished.
C2_Witness ==
    /\ Kinds("status") # {}
    /\ Kinds("chunk") # {}
    /\ monitor.polls = "200"

\* the result the claim expects for a raw result string of the status answer
ExpectedResult(raw) ==
    CASE raw = ""         -> "SUCCESS"
      [] raw = "unstable" -> "UNSTABLE"
      [] OTHER            -> raw

\* C3: when the build was observed finished and the log follower ended with
\* an error, monitorRun has received that error and returns it instead of a
\* result; when the follower ended without error it returns the observed
\* result (upper-cased, empty read as SUCCESS).
C3_FollowerErrorPropagated ==
    (monitor.pc = "done" /\ streamLogs /\ monitor.polls \in {"200", "non-2xx"}) =>
        /\ monitor.received = 1
        /\ follower.pc = "exited"
        /\ IF follower.ret # NoError
           THEN monitor.ret = [result |-> "", err |-> follower.ret]
           ELSE monitor.ret = [result |-> ExpectedResult(monitor.detail.result),
                               err |-> NoError]

\* C3 witness: the follower failed, the build finished, and monitorRun
\* returned the follower's error.
C3_Witness ==
    /\ monitor.pc = "done"
    /\ monitor.polls = "200"
    /\ follower.ret = "read log chunk"
    /\ monitor.ret = [result |-> "", err |-> "read log chunk"]

----------------------------------------------------------------------------
(* Properties of the log follower *)

RECURSIVE Flatten(_)
Flatten(chunks) ==
    IF chunks = <<>> THEN <<>> ELSE Head(chunks).bytes \o Flatten(Tail(chunks))

IsChunk(e) == e.kind = "chunk"

Chunks == SelectSeq(out, IsChunk)

\* the bytes delivered to the sink, in order
SinkBytes == Flatten(Chunks)

InEpoch(e) == e.kind = "chunk" /\ e.epoch = follower.restarts

\* the bytes delivered since the last 416 (since the start, without one)
SinceRestart == Flatten(SelectSeq(out, InEpoch))

IsPrefix(a, b) == Len(a) <= Len(b) /\ \A i \in DOMAIN a : a[i] = b[i]

\* s holds the first bytes of one generation of the log
FromOffsetZero(s) == \E g \in 0..MaxRotations : \A i \in DOMAIN s : s[i] = <<g, i>>

C5_ChunkOffsetsMonotonic ==
    \A i \in 1..(Len(Chunks) - 1) :
        Chunks[i + 1].start >= Chunks[i].start + Len(Chunks[i].bytes)

\* C5 as amended: the chunks are written in request order and each chunk
\* starts at or after the end offset of the chunk before it, except that the
\* first chunk written after a 416 response starts at offset 0.
C5_ChunkOffsetsMonotonicPerRestart ==
    \A i \in 1..(Len(Chunks) - 1) :
        /\ Chunks[i + 1].epoch >= Chunks[i].epoch
        /\ Chunks[i + 1].epoch = Chunks[i].epoch =>
               Chunks[i + 1].start >= Chunks[i].start + Len(Chunks[i].bytes)
        /\ Chunks[i + 1].epoch > Chunks[i].epoch => Chunks[i + 1].start = 0

\* C5 witness: a chunk written after a 416 starts at 0, below the end of the
\* chunk before it, and is followed by a chunk of the same restart.
C5_Witness ==
    \E i \in 1..(Len(Chunks) - 2) :
        /\ Chunks[i + 1].epoch > Chunks[i].epoch
        /\ Chunks[i + 1].start = 0
        /\ Chunks[i + 2].epoch = Chunks[i + 1].epoch
        /\ Chunks[i + 2].start > 0

----------------------------------------------------------------------------
(* The HTTP engine used by NumTasks tasks *)

InitHttp ==
    /\ HttpIdle
    /\ ElsewhereIdle
    /\ FollowIdle
    /\ RunIdle

NextHttp ==
    \E t \in Tasks :
        \/ \E m \in Methods : Do(t, m)
        \/ ensureCrumb(t)
        \/ \E a \in CrumbAnswers : CrumbIssuerAnswer(t, a)
        \/ ExecuteError(t)
        \/ \E st \in Statuses : Execute(t, st)
        \/ clearCrumb(t)
        \/ DoReturn(t)

SpecHttp == InitHttp /\ [][NextHttp]_vars

\* the tasks whose request to /crumbIssuer/api/json is in flight
Fetching == {t \in Tasks : task[t].pc = "fetch"}

\* the mutating calls that have passed ensureCrumb and not yet returned
PastEnsure == {t \in Tasks : needsCrumb(task[t].method) /\ task[t].pc = "exec"}

\* C19 as stated: crumb fetches of concurrent tasks never overlap, and until a
\* rejected request clears the crumb exactly one request is made to the crumb
\* issuer, every other task sending the crumb that request cached
C19_OneCrumbFetch ==
    /\ Cardinality(Fetching) <= 1
    /\ issuer.counted => issuer.fetches <= 1
    /\ issuer.counted /\ PastEnsure # {} => issuer.fetches = 1

\* C19, amended: the same, as long as the crumb issuer answered the fetch with
\* a crumb or with 404/405; a fetch that fails caches nothing, and the next
\* mutating call fetches again
C19_OneCrumbFetchUnlessFailed ==
    /\ Cardinality(Fetching) <= 1
    /\ issuer.counted /\ ~issuer.failed => issuer.fetches <= 1
    /\ issuer.counted /\ PastEnsure # {} => issuer.fetches >= 1
    /\ \A t \in PastEnsure :
           issuer.counted /\ ~issuer.failed /\ ~crumbUnsupported
               => task[t].hdr = crumb /\ crumb # NoCrumb

\* C19 witness: two mutating calls are past ensureCrumb at once, one fetch was
\* made, and both send the crumb it cached
C19_Witness ==
    /\ issuer.counted /\ ~issuer.failed /\ issuer.fetches = 1
    /\ Cardinality(PastEnsure) >= 2
    /\ crumb # NoCrumb
    /\ \A t \in PastEnsure : task[t].hdr = crumb

\* C1: within one call of Do, a request is retried only when its answer was
\* 401 or 403, a crumb was sent with it and no retry has happened yet; then it
\* is retried exactly once, so that a call executes the request at most twice
\* and hands a second 401/403 to the caller.
C1_RetryOnceOnCrumbRejection ==
    \A t \in Tasks :
        /\ task[t].execs <= 2
        /\ task[t].execs = 2 => (task[t].first \in {401, 403} /\ task[t].firstSent)
        /\ (task[t].pc = "done" /\ task[t].execs = 1 /\ task[t].firstSent)
              => task[t].ret.status \notin {401, 403}

----------------------------------------------------------------------------
(* Properties of jk run ls *)

\* the kinds of call that reached processRunList
Processed == {"first", "next", "replay", "crafted"}

\* opts.Limit and the cursor's cutoff as the last call used them
LastLimit == EffectiveLimit(last.opts.Limit)

LastCutoff ==
    IF CursorGiven(last.opts.Cursor)
    THEN decodeRunCursor(last.opts.Cursor).payload.Number
    ELSE 0

\* build n of job b passes the filters and the since bound of options o
RunMatches(b, n, o) ==
    /\ Evaluate([result |-> StringValue(b[n].Result),
                 status |-> StringValue("completed")], o.Filters)
    /\ o.Since.set => b[n].Timestamp >= o.Since.ms

\* the numbers of the matching builds lo..hi of job b, largest first
RECURSIVE MatchesIn(_, _, _, _)
MatchesIn(b, lo, hi, o) ==
    IF lo > hi THEN <<>>
    ELSE IF lo = hi THEN (IF RunMatches(b, lo, o) THEN <<lo>> ELSE <<>>)
    ELSE LET mid == (lo + hi) \div 2
         IN  MatchesIn(b, mid + 1, hi, o) \o MatchesIn(b, lo, mid, o)

AllMatches(b, o) == MatchesIn(b, 1, Len(b), o)

\* the builds of job b are numbered in the order of their timestamps
TimeOrdered(b) ==
    \A i, j \in DOMAIN b : i < j => b[i].Timestamp <= b[j].Timestamp

\* C6 as claimed: a call with a cursor whose embedded job path differs from
\* the normalized job path of the call fails with the cursor mismatch error
\* and returns no items.
C6_CursorBoundToJobPath ==
    LET decoded == decodeRunCursor(last.opts.Cursor)
    IN  (/\ last.kind \in Processed
         /\ CursorGiven(last.opts.Cursor)
         /\ decoded.err = NoError
         /\ decoded.payload.JobPath # normalizeJobPath(last.jobPath))
        => (last.res.err = "cursor mismatch" /\ last.res.out = NoOutput)

\* C6 as amended: a call with a cursor that embeds a non-empty job path
\* different from the normalized job path of the call fails with the cursor
\* mismatch error and returns no items, groups or cursor; a cursor that
\* embeds no job path, or an empty one, is accepted for every job.
C6_NonEmptyCursorPathBound ==
    LET decoded == decodeRunCursor(last.opts.Cursor)
    IN  (/\ last.kind \in Processed
         /\ CursorGiven(last.opts.Cursor)
         /\ decoded.err = NoError)
        => IF /\ decoded.payload.JobPath # <<>>
              /\ decoded.payload.JobPath # normalizeJobPath(last.jobPath)
           THEN last.res.err = "cursor mismatch" /\ last.res.out = NoOutput
           ELSE last.res.err = NoError

\* C6 witness: the cursor a call returned for one job path was replayed
\* against a path that normalizes differently, and was rejected.
C6_Witness ==
    /\ last.kind = "replay"
    /\ session.cursor = last.opts.Cursor
    /\ normalizeJobPath(last.jobPath) # normalizeJobPath(session.jobPath)
    /\ last.res.err = "cursor mismatch"

\* C7 as claimed, for a job whose builds are numbered in time order: a call
\* that succeeds returns a nextCursor exactly when the job has a matching run
\* beyond the items returned (below the last item's number, or below the
\* cursor's number when no item was returned).
C7_CursorIffMoreMatches ==
    (/\ last.kind \in Processed
     /\ last.res.err = NoError
     /\ TimeOrdered(JobBuilds(last.jobPath)))
    => LET b     == JobBuilds(last.jobPath)
           items == last.res.out.Items
           below == IF items # <<>> THEN items[Len(items)].Number
                    ELSE IF LastCutoff > 0 THEN LastCutoff
                    ELSE Len(b) + 1
           more  == \E n \in 1..Len(b) : n < below /\ RunMatches(b, n, last.opts)
       IN  (last.res.out.NextCursor # NoCursor) <=> more

\* the items of the pages lo..hi of the session, in order
RECURSIVE PagesIn(_, _, _)
PagesIn(pages, lo, hi) ==
    IF lo > hi THEN <<>>
    ELSE IF lo = hi THEN pages[lo]
    ELSE LET mid == (lo + hi) \div 2
         IN  PagesIn(pages, lo, mid) \o PagesIn(pages, mid + 1, hi)

FlattenPages(pages) == PagesIn(pages, 1, Len(pages))

\* C8 as claimed, for a job whose builds are numbered in time order: page k
\* of a session holds the k-th group of at most `limit` matching runs in
\* descending order of number, and when the last page came without cursor
\* the pages together hold every matching run of the job.
C8_PaginationYieldsAllMatches ==
    (session.pages # <<>> /\ TimeOrdered(JobBuilds(session.jobPath)))
    => LET b   == JobBuilds(session.jobPath)
           all == AllMatches(b, session.opts)
           lim == EffectiveLimit(session.opts.Limit)
       IN  /\ \A k \in DOMAIN session.pages :
                  session.pages[k] =
                      SubSeq(all, (k - 1) * lim + 1, Min(k * lim, Len(all)))
           /\ session.cursor = NoCursor => FlattenPages(session.pages) = all

\* C9: whenever a call returns a nextCursor, the cursor decodes without error
\* to the normalized job path of the call and the build number of the last
\* item returned.
C9_CursorDecodesToPathAndLastNumber ==
    (last.kind \in Processed /\ last.res.out.NextCursor # NoCursor)
    => LET items   == last.res.out.Items
           decoded == decodeRunCursor(last.res.out.NextCursor)
       IN  /\ last.res.err = NoError
           /\ items # <<>>
           /\ decoded.err = NoError
           /\ decoded.payload = [JobPath |-> normalizeJobPath(last.jobPath),
                                 Number  |-> items[Len(items)].Number]

\* C9 witness: a page of two items came with a cursor, for a job path given
\* with slashes around it and holding a character JSON escapes.
C9_Witness ==
    /\ last.kind \in Processed
    /\ last.res.out.NextCursor # NoCursor
    /\ Len(last.res.out.Items) = 2
    /\ last.jobPath # normalizeJobPath(last.jobPath)
    /\ \E i \in DOMAIN last.jobPath : EscapeChar(last.jobPath[i]) # last.jobPath[i]

\* the build numbers the output of the last call shows: its items, the first
\* and last run of its groups, and the runs its metadata was collected from
Shown ==
    LET o == last.res.out
    IN  {o.Items[i].Number : i \in DOMAIN o.Items}
        \cup {o.Groups[i].First : i \in DOMAIN o.Groups}
        \cup {o.Groups[i].Last : i \in DOMAIN o.Groups}
        \cup {o.Metadata.observed[i] : i \in DOMAIN o.Metadata.observed}

\* the build numbers the last call fetched and did not skip for its cursor
Iterated ==
    LET n == Len(JobBuilds(last.jobPath))
    IN  {k \in 1..n : /\ k > n - (LastLimit + runListHeadroom)
                      /\ LastCutoff > 0 => k < LastCutoff}

\* C10: with since set, the loop over the runs stops at the first run (in
\* descending order of number) whose timestamp is earlier than since: no run
\* from that one on is inspected, and no run with a timestamp earlier than
\* since is shown in the items, groups or metadata, whatever its result.
C10_SinceStopsIteration ==
    (last.kind \in Processed /\ last.res.err = NoError /\ last.opts.Since.set)
    => LET b      == JobBuilds(last.jobPath)
           Old(n) == b[n].Timestamp < last.opts.Since.ms
           olds   == {n \in Iterated : Old(n)}
           seen   == {last.res.inspected[i] : i \in DOMAIN last.res.inspected}
       IN  /\ \A n \in Shown \cup seen : ~Old(n)
           /\ olds = {} => (last.res.stopped = 0 /\ seen = Iterated)
           /\ olds # {} =>
                 /\ last.res.stopped \in olds
                 /\ \A n \in olds : n <= last.res.stopped
                 /\ seen = {n \in Iterated : n > last.res.stopped}

\* C10 witness: the loop stopped at a run older than since that the filter
\* would have let through, after it had put a newer run into the output.
C10_Witness ==
    /\ last.kind \in Processed
    /\ last.opts.Since.set
    /\ last.opts.Filters # <<>>
    /\ last.res.out.Items # <<>>
    /\ last.res.out.Groups # <<>>
    /\ last.res.stopped # 0
    /\ Evaluate(inspectRun(Summary(last.res.stopped), FALSE, FALSE).Context,
                last.opts.Filters)

\* the runs the last call iterated over neither inspected nor skipped for
\* the cursor: the run the loop stopped at and those behind it
Dropped ==
    Iterated \ {last.res.inspected[i] : i \in DOMAIN last.res.inspected}

\* C39: every run the since short-circuit drops has a timestamp earlier
\* than since, so no fetched run that is recent enough and passes cursor
\* and filters is left out
C39_SinceDropsOnlyOlderRuns ==
    (last.kind \in Processed /\ last.res.err = NoError /\ last.opts.Since.set)
    => \A n \in Dropped :
           JobBuilds(last.jobPath)[n].Timestamp < last.opts.Since.ms

\* C39: what holds: on a job whose builds are numbered in the order of
\* their timestamps the short-circuit drops only runs older than since
C39_SinceDropsOnlyOlderRunsInTimeOrder ==
    (/\ last.kind \in Processed
     /\ last.res.err = NoError
     /\ last.opts.Since.set
     /\ TimeOrdered(JobBuilds(last.jobPath)))
    => \A n \in Dropped :
           JobBuilds(last.jobPath)[n].Timestamp < last.opts.Since.ms

\* the loop stopped at a run older than since while a lower-numbered run
\* that is recent enough and passes the filters was still to come
C39_Witness ==
    /\ last.kind \in Processed
    /\ last.res.err = NoError
    /\ last.opts.Since.set
    /\ last.res.stopped # 0
    /\ \E n \in Dropped :
           /\ n < last.res.stopped
           /\ RunMatches(JobBuilds(last.jobPath), n, last.opts)

----------------------------------------------------------------------------
(* Parameter discovery *)

InitParams ==
    /\ HttpIdle
    /\ ConfigIdle
    /\ DiscIdle
    /\ CapIdle
    /\ SnapshotIdle
    /\ FollowIdle
    /\ RunIdle
    /\ TriggerIdle
    /\ PureIdle
    /\ parser = ParserStart
    /\ collector \in {newMetadataCollector(e) : e \in BOOLEAN}

NextParams ==
    \/ \E name \in ElementNames : StartElement(name)
    \/ \E text \in Texts : CharData(text)
    \/ EndElement
    \/ ParseEOF
    \/ ParseError
    \/ \E run \in RunParameters : observe(run)
    \/ metadata

SpecParams == InitParams /\ [][NextParams]_vars

\* every ParameterInfo that discovery has produced so far
Produced ==
    {parser.params[i] : i \in 1..Len(parser.params)}
        \cup {parser.returned[i] : i \in 1..Len(parser.returned)}
        \cup (IF collector.meta = <<>> THEN {}
              ELSE {collector.meta[1][i] : i \in 1..Len(collector.meta[1])})

\* C11: every ParameterInfo produced by parseParametersFromConfig or by the
\* metadata collector whose name is likely a secret has isSecret set, an
\* empty default and no sample values, whatever the order of name, default
\* and choices in the input.
C11_SecretParametersRedacted ==
    \A info \in Produced :
        IsLikelySecret(info.Name) =>
            /\ info.IsSecret
            /\ info.Default = <<>>
            /\ info.SampleValues = <<>>

\* C11 witness: a document whose default came before its secret name was
\* parsed and returned, and the collector reported a secret parameter it saw
C11_Witness ==
    /\ parser.state = "returned"
    /\ parser.redacted
    /\ \E i \in 1..Len(parser.returned) :
           IsLikelySecret(parser.returned[i].Name)
    /\ collector.meta # <<>>
    /\ \E i \in 1..Len(collector.meta[1]) :
           /\ IsLikelySecret(collector.meta[1][i].Name)
           /\ collector.meta[1][i].Frequency[1] > 0

----------------------------------------------------------------------------
(* run start --follow: the queue wait, monitorRun, the exit code *)

InitTrigger ==
    /\ HttpIdle
    /\ ConfigIdle
    /\ DiscIdle
    /\ CapIdle
    /\ SnapshotIdle
    /\ RunIdle
    /\ ParamIdle
    /\ PureIdle
    /\ TriggerIdle
    /\ logLen = 0
    /\ logGen = 0
    /\ building = TRUE
    /\ result = ""
    /\ streamLogs \in BOOLEAN
    /\ ctxDone = FALSE
    /\ logCtxDone = FALSE
    /\ logErrCh = <<>>
    /\ follower = [pc |-> "idle", offset |-> 0, resp |-> <<>>, ret |-> NoError,
                   restarts |-> 0, left |-> NotLeft]
    /\ monitor = [pc |-> "none", detail |-> ZeroDetail, polls |-> "none",
                  beats |-> 0, received |-> 0, ferr |-> NoError,
                  ret |-> [result |-> "", err |-> NoError]]
    /\ out = <<>>
    /\ logClean = TRUE

NextTrigger ==
    \/ \E hasLocation \in BOOLEAN, timeout \in 0..MaxTimeout :
           WaitStart(hasLocation, timeout)
    \/ Tick
    \/ QueueRequestFails
    \/ \E status \in {item, ZeroStatus} : QueueAnswer(status)
    \/ WakeUp
    \/ \E why \in {"", "why"} : ItemCancel(why)
    \/ \E n \in QueueNumbers : ItemLeavesQueue(n)
    \/ (monitor.pc = "none" /\ ~cmdExit.done /\ CtxCancel)
    \/ FollowWaitFailed
    \/ FollowResolved
    \/ (monitor.pc # "none" /\ NextFollow)
    \/ \E fetchFails \in BOOLEAN : FollowReturn(fetchFails)

SpecTrigger == InitTrigger /\ [][NextTrigger]_vars

\* waitForBuildNumber has returned although the queue item it polled was
\* neither cancelled nor given a build number, and no queue request failed
ReturnedUnresolved ==
    /\ waiter.pc = "done"
    /\ ~Resolved(item)
    /\ waiter.ret.err \notin {"follow requested but queue location unavailable",
                               "queue request failed"}

\* C12 (as stated): if the queue item is never cancelled and never gets a
\* build number, waitForBuildNumber fails with the time-out error, no earlier
\* than the deadline and no later than one polling interval after it.
C12_TimeoutWithinOnePollOfDeadline ==
    ReturnedUnresolved =>
        /\ waiter.ret.err = QueueTimeout
        /\ waiter.ret.at >= waiter.deadline
        /\ waiter.ret.at <= waiter.deadline + PollInterval

\* C12 (amended): if the queue item is never cancelled, never gets a build
\* number and no queue request fails, waitForBuildNumber fails with the
\* time-out error after the deadline and no later than one polling interval
\* plus the time its last queue request took after the deadline.
C12_TimeoutWithinPollAndRequestOfDeadline ==
    ReturnedUnresolved =>
        /\ waiter.ret.err = QueueTimeout
        /\ waiter.ret.at > waiter.deadline
        /\ waiter.ret.at <= waiter.deadline + PollInterval + waiter.ret.took

\* C12 witness: the wait timed out after it had slept, its last request
\* having taken time
C12_Witness ==
    /\ ReturnedUnresolved
    /\ waiter.ret.err = QueueTimeout
    /\ waiter.timeout > 0
    /\ waiter.ret.took > 0
    /\ waiter.ret.at > waiter.deadline + PollInterval

\* C13: once the command's context is cancelled while the queue item is
\* unresolved, waitForBuildNumber sends no further queue request and returns
\* the context's error.
C13_CancellationStopsQueueWait ==
    /\ ~waiter.askedAfterCancel
    /\ (ReturnedUnresolved /\ waiter.ctxAtReturn) =>
           waiter.ret.err = ContextCanceled

\* the exit code the table of results gives
ExitTable(res) ==
    CASE res = "SUCCESS" -> 0
      [] res = "UNSTABLE" -> 10
      [] res = "FAILURE" -> 11
      [] res = "ABORTED" -> 12
      [] res = "NOT_BUILT" -> 13
      [] OTHER -> 0

\* the queue item resolved to a build number and the status endpoint then
\* reported the build finished
FollowedToTheEnd ==
    /\ cmdExit.done
    /\ waiter.ret.err = NoError
    /\ waiter.ret.number > 0
    /\ monitor.pc = "done"
    /\ monitor.polls = "200"

\* the exit code and the status line the claim expects
ExitAsExpected ==
    /\ cmdExit.code = ExitTable(ExpectedResult(monitor.detail.result))
    /\ streamLogs =>
           \E i \in Kinds("status") :
               /\ out[i].number = waiter.ret.number
               /\ out[i].result = ExpectedResult(monitor.detail.result)

----------------------------------------------------------------------------
(* exitCodeForResult on its own *)

InitExitCode ==
    /\ HttpIdle
    /\ ConfigIdle
    /\ DiscIdle
    /\ CapIdle
    /\ SnapshotIdle
    /\ FollowIdle
    /\ RunIdle
    /\ ParamIdle
    /\ TriggerIdle
    /\ calls = <<>>

NextExitCode == \E res \in ResultInputs : ExitCodeCall(res)

SpecExitCode == InitExitCode /\ [][NextExitCode]_vars

\* C15 (as stated): exitCodeForResult maps SUCCESS to 0, UNSTABLE to 10,
\* FAILURE to 11, ABORTED to 12, NOT_BUILT to 13 and every other input to 0.
C15_ExitCodeTable ==
    \A i \in DOMAIN calls : calls[i].output = ExitTable(calls[i].input)

\* C15 (amended): exitCodeForResult is total and compares without regard to
\* case: an input whose upper-case form is SUCCESS gives 0, UNSTABLE 10,
\* FAILURE 11, ABORTED 12, NOT_BUILT 13, and every other input gives 0.
C15_ExitCodeTableIgnoringCase ==
    \A i \in DOMAIN calls : calls[i].output = ExitTable(ToUpper(calls[i].input))

\* C15 witness: the function was called with a lower-case result of the
\* table and with a result the table does not name
C15_Witness ==
    /\ Len(calls) = MaxCalls
    /\ calls[1].input = "not_built" /\ calls[1].output = 13
    /\ calls[2].input = "UNKNOWN" /\ calls[2].output = 0

----------------------------------------------------------------------------
(* jk log: the snapshot of a build's log *)

InitSnapshot ==
    /\ HttpIdle
    /\ ConfigIdle
    /\ DiscIdle
    /\ CapIdle
    /\ FollowIdle
    /\ RunIdle
    /\ ParamIdle
    /\ TriggerIdle
    /\ PureIdle
    /\ snap = SnapIdle

NextSnapshot ==
    \/ \E maxBytes \in MaxBytesInputs, steady \in SnapshotAnswers :
           SnapshotStart(maxBytes, steady)
    \/ CtxCancel
    \/ SnapshotCapReached
    \/ SnapshotCancelled
    \/ \E a \in SnapshotAnswers : SnapshotIteration(a)

SpecSnapshot == InitSnapshot /\ [][NextSnapshot]_vars

\* the limit the claim names for the maxBytes a snapshot was asked with
ClaimedLimit == IF snap.given <= 0 THEN 524288 ELSE snap.given

\* C16: the bytes a snapshot has written to the sink are at most maxBytes
\* (512 KiB when the caller gave none) plus the size of the last chunk
\* written when that chunk took the total over the limit; while the
\* snapshot goes on, fewer than maxBytes were written.
C16_SnapshotBytesBounded ==
    snap.pc # "idle" =>
        /\ snap.written <= ClaimedLimit
                               + (IF snap.written > ClaimedLimit
                                  THEN snap.lastChunk ELSE 0)
        /\ snap.pc = "loop" => snap.written < ClaimedLimit

\* C16 witness: a snapshot ended truncated with more bytes than maxBytes
C16_Witness ==
    /\ snap.pc = "done"
    /\ snap.ret.why = "limit"
    /\ snap.written > ClaimedLimit
    /\ snap.written > snap.lastChunk

\* C17: a snapshot sends at most 1000 requests whatever the server answers,
\* and when the cap ends it the snapshot returns truncated = true without
\* error; a server that keeps sending empty chunks with more data ends it
\* at once, a server that keeps answering 416 ends it at the cap.
C17_SnapshotTerminates ==
    /\ snap.asked <= 1000
    /\ snap.i <= 1000
    /\ (snap.pc = "done" /\ snap.ret.why = "cap") =>
           /\ snap.asked = 1000
           /\ snap.ret.truncated
           /\ snap.ret.err = NoError

\* C17 witness: a server that answered 416 a thousand times ended the
\* snapshot at the cap
C17_Witness ==
    /\ snap.pc = "done"
    /\ snap.ret.why = "cap"
    /\ snap.steady.kind = "416"
    /\ snap.asked = 1000
    /\ snap.written = 0

----------------------------------------------------------------------------
(* the follower and cancellation *)

\* C18: when StreamProgressiveLog returns at one of the places where it
\* looks at its context (the top of the loop, a failed request, a failed
\* read of the body) and the context is cancelled, it returns nil.
C18_CancelledFollowerReturnsNil ==
    (follower.pc = "exited"
        /\ follower.left.cancelled
        /\ follower.left.site \in {"top", "request", "read"}) =>
            follower.ret = NoError

\* C18 witness: the body could not be read because the context had been
\* cancelled while it was read, and the follower returned nil
C18_Witness ==
    /\ follower.pc = "exited"
    /\ follower.left = [site |-> "read", cancelled |-> TRUE]
    /\ follower.ret = NoError
    /\ Chunks # <<>>

----------------------------------------------------------------------------
(* Client.Capabilities called by several tasks *)

\* the Client as NewClient returned it: its first probe round stored what it
\* found at tick 0, or failed and left the zero time
InitCaps ==
    /\ HttpIdle
    /\ ConfigIdle
    /\ DiscIdle
    /\ FollowIdle
    /\ RunIdle
    /\ ParamIdle
    /\ TriggerIdle
    /\ PureIdle
    /\ SnapshotIdle
    /\ capMu = 0
    /\ wallClock = 0
    /\ capCall = [t \in Tasks |-> IdleCall]
    /\ \/ capabilities = NoCapabilities /\ lastCapProbe = ZeroTime
       \/ capabilities \in ProbedAtStart /\ lastCapProbe = 0

NextCaps ==
    \/ CapTick
    \/ \E t \in Tasks :
          \/ Capabilities(t)
          \/ refreshCapabilities(t)
          \/ \E a \in StatusAnswers : StatusAnswer(t, a)
          \/ \E st \in ProbeStatuses : EventsProbe(t, st)
          \/ \E st \in ProbeStatuses : PrometheusProbe(t, st)
          \/ CapabilitiesReread(t)
          \/ CapabilitiesReturn(t)

SpecCaps == InitCaps /\ [][NextCaps]_vars

\* the tasks whose probe round is in progress
Probing == {t \in Tasks : capCall[t].pc \in {"status", "events", "prometheus"}}

\* C20: capability probes of concurrent callers never overlap, and a stale
\* cache is refreshed by a single probe round: no round is started on a cache
\* that another caller's round has already refreshed
C20_SingleProbeRound ==
    /\ Cardinality(Probing) <= 1
    /\ \A t \in Probing : capCall[t].staleAtLock

\* the part of C20 that holds: at most one probe round is in progress, and it
\* is the round of the task holding capMu
C20_ProbeRoundsSerialized ==
    /\ Cardinality(Probing) <= 1
    /\ \A t \in Probing : capMu = t

C20_Witness ==
    \E t, u \in Tasks :
        /\ t # u
        /\ t \in Probing
        /\ capCall[t].staleAtLock
        /\ capCall[u].pc = "lock"

----------------------------------------------------------------------------
(* Job discovery over the trees of a server *)

InitDiscover ==
    /\ HttpIdle
    /\ ConfigIdle
    /\ FollowIdle
    /\ RunIdle
    /\ ParamIdle
    /\ TriggerIdle
    /\ PureIdle
    /\ SnapshotIdle
    /\ CapIdle
    /\ DiscIdle

NextDiscover ==
    \/ \E tree \in JobTrees, folder \in FolderPaths, glob \in Globs,
          maxDepth \in DepthLimits :
          DiscoverStart(tree, folder, glob, maxDepth)
    \/ \E a \in ListAnswers(NextListed) : ListJobs(a)
    \/ \E a \in ListAnswers(NextListed) : ListBranches(a)
    \/ DiscoverDone

SpecDiscover == InitDiscover /\ [][NextDiscover]_vars

Range(s) == {s[i] : i \in DOMAIN s}

\* the classes of items that are neither a folder nor a multibranch project
LeafClasses == {FreeStyleClass, WorkflowJobClass}

\* the multibranch projects a finished search came across in the listings of
\* its walk and that match its glob
MatchedMultibranch ==
    UNION {{joinJobPath(r.path, job.Name) :
               job \in {j \in Range(jobTree[r.path]) :
                           /\ j.Class = MultibranchClass
                           /\ matchJobGlob(disc.glob, disc.folder,
                                           joinJobPath(r.path, j.Name))}} :
              r \in {q \in Range(disc.requests) :
                        q.kind = "walk" /\ q.path \in DOMAIN jobTree}}

Emitted == Range(disc.ret.results)

\* C22: a search that ends without an error has emitted, for every multibranch
\* project matching the glob, each of its children that is neither a folder
\* nor a multibranch project, whether or not the child matches the glob; it
\* has emitted neither the project itself nor a folder or multibranch project
\* nested in it; and the list it returns is in ascending order
C22_MatchedMultibranchEmitsItsBranches ==
    disc.pc = "done" /\ disc.ret.err = NoError
        => /\ \A m \in MatchedMultibranch :
                /\ m \notin Emitted
                /\ \A child \in Range(jobTree[m]) :
                       joinJobPath(m, child.Name) \in Emitted
                           <=> child.Class \in LeafClasses
           /\ \A i \in 1..(Len(disc.ret.results) - 1) :
                  StringLess(JoinPath(disc.ret.results[i]),
                             JoinPath(disc.ret.results[i + 1]))

\* C22 witness: the glob *ada* on a server whose Tools/ada is a multibranch
\* project with the branches master and PR-22 and a nested folder gives
\* Tools/ada/PR-22, Tools/ada/master
C22_Witness ==
    /\ disc.pc = "done" /\ disc.ret.err = NoError
    /\ disc.glob = <<"*","a","d","a","*">>
    /\ disc.folder = RootPath
    /\ <<ToolsName, AdaName>> \in MatchedMultibranch
    /\ isFolderClass(jobTree[<<ToolsName, AdaName>>][2].Class)
    /\ jobTree[<<ToolsName>>][2].Class = FreeStyleClass
    /\ disc.ret.results = <<<<ToolsName, AdaName, PRName>>,
                            <<ToolsName, AdaName, MasterName>>>>

-----------------------------------------------------------------------------
(* filter.Evaluate called on its own, on contexts that hold values of each *)
(* type and lack some keys, and on lists of up to two filters, the first   *)
(* of two on the result.                                                   *)

FilterKeys == {"result", "queue.id", "building", "causes", "scm.branch"}

FilterInputs ==
    [Key : FilterKeys, Operator : {"=", "!=", ">"}, Value : {"success", "5", "true"}]

FilterLists ==
    {<<>>} \cup {<<f>> : f \in FilterInputs} \cup {<<f, g>> : f \in {h \in FilterInputs : h.Key = "result"},
                             g \in FilterInputs}

\* a context takes each key from its choices or leaves it out
ContextChoices ==
    [result |-> {StringValue("SUCCESS"), StringValue("5")},
     building |-> {BoolValue(TRUE)},
     causes |-> {StringsValue(<<"user", "5">>)}] @@
    ("queue.id" :> {IntValue(7)}) @@
    ("scm.branch" :> {NilValue})

ContextInputs ==
    UNION {[keys -> UNION {ContextChoices[k] : k \in keys}] : keys \in SUBSET FilterKeys}

WellTyped(ctx) == \A k \in DOMAIN ctx : ctx[k] \in ContextChoices[k]

EvaluateCall(ctx, filters) ==
    /\ calls = <<>>
    /\ calls' = <<[fn |-> "Evaluate",
                   input |-> [ctx |-> ctx, filters |-> filters],
                   output |-> Evaluate(ctx, filters)]>>
    /\ UNCHANGED notPure

NextEvaluate ==
    /\ calls = <<>>
    /\ \E ctx \in {c \in ContextInputs : WellTyped(c)}, filters \in FilterLists :
           EvaluateCall(ctx, filters)

SpecEvaluate == InitExitCode /\ [][NextEvaluate]_vars

\* C23: Evaluate is true exactly when every filter names a key of the
\* context and the predicate of the value's type holds for it; a filter on
\* a missing key makes the result false whatever its operator, and an empty
\* list of filters gives true for every context
C23_EvaluateIffEveryKeyPresentAndMatched ==
    \A i \in DOMAIN calls :
        LET ctx == calls[i].input.ctx
            filters == calls[i].input.filters
            answer == calls[i].output
        IN  /\ filters = <<>> => answer
            /\ (\E j \in DOMAIN filters : filters[j].Key \notin DOMAIN ctx) => ~answer
            /\ (\A j \in DOMAIN filters : filters[j].Key \in DOMAIN ctx)
                   => (answer <=> \A j \in DOMAIN filters :
                                   evaluateSingle(ctx[filters[j].Key], filters[j]))

\* a context with a result and no queue.id, asked for result = success and
\* queue.id != 5: the first filter holds, the second names a missing key,
\* the answer is false
C23_Witness ==
    \E i \in DOMAIN calls :
        /\ calls[i].input.filters =
               <<[Key |-> "result", Operator |-> "=", Value |-> "success"],
                 [Key |-> "queue.id", Operator |-> "!=", Value |-> "5"]>>
        /\ DOMAIN calls[i].input.ctx = {"result"}
        /\ calls[i].input.ctx["result"] = StringValue("SUCCESS")
        /\ ~calls[i].output

-----------------------------------------------------------------------------
(* inspectRun called on its own, on summaries whose actions carry          *)
(* parameter entries with repeated names, names in need of trimming, names *)
(* that are no strings, values that are null and entries that are no       *)
(* objects.                                                                *)

ParamEntryInputs ==
    [isMap : {TRUE},
     name : {StringValue(n) : n \in {"ENV", " ENV", "TOKEN", " "}} \cup {NilValue},
     value : {StringValue("dev"), StringValue("prod"), NilValue}]
    \cup {[isMap |-> FALSE, name |-> NilValue, value |-> NilValue]}

ParametersAction(entries) == [hasParameters |-> TRUE, parameters |-> entries]

CausesAction == [hasParameters |-> FALSE, parameters |-> <<>>]

\* the entries of a "causes" list: objects with their _class,
\* shortDescription, userId and userName members, or something else
CauseEntryInputs ==
    [isMap : {TRUE},
     class : {StringValue("hudson.model.Cause$UserIdCause"),
              StringValue("hudson.triggers.TimerTrigger$TimerTriggerCause"),
              StringValue(""), NilValue},
     shortDescription : {StringValue("Started by user admin"), NilValue},
     userId : {StringValue("admin"), NilValue},
     userName : {StringValue("Admin"), StringValue(""), NilValue}]
    \cup {[isMap |-> FALSE, class |-> NilValue, shortDescription |-> NilValue,
           userId |-> NilValue, userName |-> NilValue]}

CauseAction(causes) ==
    [hasParameters |-> FALSE, parameters |-> <<>>, causes |-> causes]

TimerCause ==
    [isMap |-> TRUE,
     class |-> StringValue("hudson.triggers.TimerTrigger$TimerTriggerCause"),
     shortDescription |-> NilValue, userId |-> NilValue, userName |-> NilValue]

ActionInputs ==
    {<<>>, <<CausesAction>>}
    \cup {<<CauseAction(<<c>>)>> : c \in CauseEntryInputs}
    \cup {<<CauseAction(<<c>>), CauseAction(<<TimerCause>>)>> : c \in CauseEntryInputs}
    \cup {<<ParametersAction(<<e>>)>> : e \in ParamEntryInputs}
    \cup {<<CausesAction, ParametersAction(<<e, f>>)>> : e, f \in ParamEntryInputs}
    \cup {<<ParametersAction(<<e>>), ParametersAction(<<f>>)>> : e, f \in ParamEntryInputs}

SummaryWith(actions) ==
    [Number |-> 1, Result |-> "SUCCESS", Timestamp |-> 0, Building |-> FALSE,
     Actions |-> actions]

InspectCall(actions, needParams, needCauses) ==
    /\ calls = <<>>
    /\ calls' = <<[fn |-> "inspectRun",
                   input |-> [actions |-> actions, needParams |-> needParams,
                              needCauses |-> needCauses],
                   output |-> inspectRun(SummaryWith(actions), needParams, needCauses)]>>
    /\ UNCHANGED notPure

NextInspect ==
    /\ calls = <<>>
    /\ \E actions \in ActionInputs, needParams \in BOOLEAN, needCauses \in BOOLEAN :
           InspectCall(actions, needParams, needCauses)

SpecInspect == InitExitCode /\ [][NextInspect]_vars

\* C24: whenever a run inspection's context holds the key param.<NAME>, its
\* parameters hold NAME with the same value
C24_ParamKeysMirrorParameters ==
    \A i \in DOMAIN calls :
        LET run == calls[i].output
        IN  \A name \in ParamNames :
                ParamKey(name) \in DOMAIN run.Context
                    => /\ name \in DOMAIN run.Parameters
                       /\ run.Context[ParamKey(name)] = StringValue(run.Parameters[name])

\* the name ENV is given twice, first as " ENV" with dev and then with
\* prod: context and parameters both hold prod
C24_Witness ==
    \E i \in DOMAIN calls :
        /\ calls[i].input.needParams
        /\ calls[i].input.actions =
               <<CausesAction,
                 ParametersAction(<<[isMap |-> TRUE, name |-> StringValue(" ENV"),
                                     value |-> StringValue("dev")],
                                    [isMap |-> TRUE, name |-> StringValue("ENV"),
                                     value |-> StringValue("prod")]>>)>>
        /\ "param.ENV" \in DOMAIN calls[i].output.Context
        /\ calls[i].output.Context["param.ENV"] = StringValue("prod")
        /\ calls[i].output.Parameters["ENV"] = "prod"

\* the first entry of the actions that is an object and carries the name
FirstOccurrence(entries, name) ==
    LET at == {j \in DOMAIN entries :
                  entries[j].isMap /\ TrimName(ParamEntryName(entries[j])) = name}
    IN  entries[CHOOSE j \in at : \A k \in at : j <= k]

\* C35: a name that several parameter entries of a run carry is stored, in
\* the context and in the parameters, with the value of its first entry
C35_FirstOccurrenceWins ==
    \A i \in DOMAIN calls :
        LET run == calls[i].output
            entries == AllEntries(calls[i].input.actions)
        IN  \A name \in DOMAIN run.Parameters :
                /\ run.Parameters[name] = Sprint(FirstOccurrence(entries, name).value)
                /\ run.Context[ParamKey(name)]
                       = StringValue(Sprint(FirstOccurrence(entries, name).value))

\* ENV is given in one action with dev and in the next with prod: context
\* and parameters hold prod, the value of the second
C35_Witness ==
    \E i \in DOMAIN calls :
        /\ calls[i].input.needParams
        /\ calls[i].input.actions =
               <<ParametersAction(<<[isMap |-> TRUE, name |-> StringValue("ENV"),
                                     value |-> StringValue("dev")]>>),
                 ParametersAction(<<[isMap |-> TRUE, name |-> StringValue("ENV"),
                                     value |-> StringValue("prod")]>>)>>
        /\ calls[i].output.Context["param.ENV"] = StringValue("prod")
        /\ calls[i].output.Parameters = ("ENV" :> "prod")

\* the classes a cause is sorted into
CauseClasses == {"user", "scm", "timer", "upstream", "other"}

\* C36: each element of cause.type in the context of a run inspected with
\* its causes is one of user, scm, timer, upstream and other
C36_CauseTypesAreClassified ==
    \A i \in DOMAIN calls :
        LET ctx == calls[i].output.Context
        IN  (calls[i].input.needCauses /\ "cause.type" \in DOMAIN ctx)
                => \A j \in DOMAIN ctx["cause.type"].v :
                       ctx["cause.type"].v[j] \in CauseClasses

\* C36: what holds: cause.type holds, in their order, the _class strings of
\* the causes, or the short description of a cause without one, and
\* cause.user the user names, or else the user ids
C36_CauseTypesAreClassNames ==
    \A i \in DOMAIN calls :
        LET ctx == calls[i].output.Context
            causes == calls[i].output.Causes
        IN  /\ "cause.type" \in DOMAIN ctx
                => /\ calls[i].input.needCauses
                   /\ ctx["cause.type"].v = causeTypes(causes)
                   /\ \A j \in DOMAIN ctx["cause.type"].v :
                          ctx["cause.type"].v[j] \in
                              {"hudson.model.Cause$UserIdCause",
                               "hudson.triggers.TimerTrigger$TimerTriggerCause",
                               "Started by user admin"}
            /\ "cause.user" \in DOMAIN ctx
                => \A j \in DOMAIN ctx["cause.user"].v :
                       ctx["cause.user"].v[j] \in {"Admin", "admin"}

\* a build started by a user and, in a second action, by the timer: the
\* context holds the two class names
C36_Witness ==
    \E i \in DOMAIN calls :
        /\ calls[i].input.needCauses
        /\ "cause.type" \in DOMAIN calls[i].output.Context
        /\ calls[i].output.Context["cause.type"]
               = StringsValue(<<"hudson.model.Cause$UserIdCause",
                                "hudson.triggers.TimerTrigger$TimerTriggerCause">>)
        /\ "cause.user" \in DOMAIN calls[i].output.Context
        /\ calls[i].output.Context["cause.user"] = StringsValue(<<"Admin">>)


-----------------------------------------------------------------------------
(* The config store on its own *)

InitConfig ==
    /\ HttpIdle
    /\ DiscIdle
    /\ CapIdle
    /\ SnapshotIdle
    /\ FollowIdle
    /\ RunIdle
    /\ ParamIdle
    /\ TriggerIdle
    /\ PureIdle
    /\ ConfigIdle

NextConfig ==
    \/ \E name \in ContextNames, ctx \in ContextValues : SetContext(name, ctx)
    \/ \E name \in ContextNames : RemoveContext(name)
    \/ \E name \in ContextNames : SetActive(name)
    \/ ActiveContext

SpecConfig == InitConfig /\ [][NextConfig]_vars

\* C25: after any sequence of SetContext, RemoveContext and SetActive the
\* active name is empty or the name of a context in the store; removing the
\* active context clears the active name, and SetActive with a name the
\* store lacks fails and leaves the active name as it was
C25_AtMostOneActiveContext ==
    /\ [](Active = "" \/ Active \in DOMAIN Contexts)
    /\ [][/\ lastOp'.op = "RemoveContext" /\ lastOp'.name = Active => Active' = ""
          /\ lastOp'.op = "SetActive" /\ lastOp'.name # ""
                 /\ lastOp'.name \notin DOMAIN Contexts
                 => lastOp'.err = ErrContextNotFound /\ Active' = Active
          /\ lastOp'.op = "ActiveContext" /\ Active # ""
                 => lastOp'.err = "nil" /\ lastOp'.name = Active]_vars

\* dev has been active and was removed while prod stays: no context is
\* active
C25_Witness ==
    /\ lastOp.op = "RemoveContext"
    /\ lastOp.name = "dev"
    /\ Active = ""
    /\ DOMAIN Contexts = {"prod"}


-----------------------------------------------------------------------------
(* The exit code of the process: jk run ls validates its flags and lists   *)
(* the runs, jk run start --follow waits for the build and follows it, and *)
(* Main turns the error the command returns into the exit code.            *)

\* an error value: nil, an error made by fmt.Errorf or errors.New, or a
\* *cmdutil.ExitError
NilError == [isNil |-> TRUE, isExit |-> FALSE, Code |-> 0, Msg |-> ""]

Errorf(msg) == [isNil |-> FALSE, isExit |-> FALSE, Code |-> 0, Msg |-> msg]

NewExitError(code, msg) == [isNil |-> FALSE, isExit |-> TRUE, Code |-> code, Msg |-> msg]

\* Main: the code of an ExitError, 1 for any other error, 0 without one
Main(err) ==
    IF err.isNil THEN 0
    ELSE IF err.isExit THEN err.Code
    ELSE 1

supportedKeys ==
    {"result", "status", "branch", "commit", "cause.type", "cause.user",
     "queue.id", "started", "duration"}

selectFieldRegistry ==
    {"number", "status", "result", "starttime", "durationms", "branch", "commit",
     "url", "queueid", "parameters", "artifacts", "causes"}

\* filter.validateKey on keys without one of the prefixes param., artifact.
\* and cause.
validateKey(key) ==
    IF key \in supportedKeys THEN NilError ELSE Errorf("unsupported filter key")

\* filter.Parse of one --filter entry, given as the key and the operator it
\* splits into (no operator found: op = ""); the error wraps ErrInvalidFilter
Parse(entry) ==
    IF entry.key = "" \/ entry.op = "" THEN Errorf("invalid filter expression")
    ELSE IF ~validateKey(entry.key).isNil
    THEN Errorf("invalid filter expression: unsupported filter key")
    ELSE NilError

\* parseSelectFields of one field, already lower-cased and trimmed
parseSelectFields(field) ==
    IF field = "" \/ field \in selectFieldRegistry THEN NilError
    ELSE Errorf("unsupported select field")

normalizeAggregation(value) ==
    IF value \in {"", "count", "first", "last"} THEN NilError
    ELSE Errorf("unsupported aggregation")

\* executeRunList as far as the cursor check: the job path of the cursor
\* differs from the job's
CursorCheck(cursor) ==
    IF cursor = "other job" THEN Errorf("cursor job path does not match") ELSE NilError

FirstError(errs) ==
    IF \E i \in DOMAIN errs : ~errs[i].isNil
    THEN errs[CHOOSE i \in DOMAIN errs :
                  ~errs[i].isNil /\ \A j \in 1..(i - 1) : errs[j].isNil]
    ELSE NilError

\* the RunE of jk run ls: the first error of filter.Parse,
\* parseSelectFields, normalizeAggregation and executeRunList is returned
RunListCommand(args) ==
    FirstError(<<Parse(args.filter), parseSelectFields(args.select),
                 normalizeAggregation(args.aggregation), CursorCheck(args.cursor)>>)

\* the kind of the error of the first failing input
RunListKind(args) ==
    CASE args.filter.key = "" \/ args.filter.op = "" -> "InvalidFilter"
      [] args.filter.key \notin supportedKeys -> "UnsupportedKey"
      [] args.select \notin selectFieldRegistry \cup {""} -> "UnsupportedSelectField"
      [] args.aggregation \notin {"", "count", "first", "last"} -> "UnsupportedAggregation"
      [] args.cursor = "other job" -> "CursorMismatch"
      [] OTHER -> "none"

RunListArgs ==
    [filter : {[key |-> "result", op |-> "="], [key |-> "result", op |-> ""],
               [key |-> "", op |-> "="], [key |-> "colour", op |-> "="]},
     select : {"", "number", "colour"},
     aggregation : {"", "last", "median"},
     cursor : {"none", "same job", "other job"}]

\* followTriggeredRun: the error of waitForBuildNumber, or the exit error
\* for the result of the run
FollowCommand(outcome) ==
    CASE outcome.kind = "QueueItemCancelled" -> Errorf("queue item cancelled")
      [] outcome.kind = "QueueTimeout" -> Errorf("timed out waiting for run to start")
      [] OTHER -> IF exitCodeForResult(outcome.result) = 0 THEN NilError
                  ELSE NewExitError(exitCodeForResult(outcome.result), "")

FollowOutcomes ==
    {[kind |-> "QueueItemCancelled", result |-> ""],
     [kind |-> "QueueTimeout", result |-> ""]}
    \cup {[kind |-> "none", result |-> r] : r \in {"SUCCESS", "UNSTABLE", "FAILURE"}}

RunListMain(args) ==
    /\ calls = <<>>
    /\ calls' = <<[fn |-> "run ls", input |-> args, kind |-> RunListKind(args),
                   err |-> RunListCommand(args),
                   output |-> Main(RunListCommand(args))]>>
    /\ UNCHANGED notPure

FollowMain(outcome) ==
    /\ calls = <<>>
    /\ calls' = <<[fn |-> "run start", input |-> outcome, kind |-> outcome.kind,
                   err |-> FollowCommand(outcome),
                   output |-> Main(FollowCommand(outcome))]>>
    /\ UNCHANGED notPure

NextMain ==
    \/ \E args \in RunListArgs : RunListMain(args)
    \/ \E outcome \in FollowOutcomes : FollowMain(outcome)

SpecMain == InitExitCode /\ [][NextMain]_vars

ValidationKinds ==
    {"InvalidFilter", "UnsupportedKey", "UnsupportedAggregation",
     "UnsupportedSelectField", "CursorMismatch"}

\* C26: the exit code follows the kind of the error: 2 for the validation
\* errors (invalid filter, unsupported key, unsupported aggregation,
\* unsupported select field, cursor mismatch), 7 for the queue time-out and
\* 1 for a cancelled queue item
C26_ExitCodeByErrorKind ==
    \A i \in DOMAIN calls :
        /\ calls[i].kind \in ValidationKinds => calls[i].output = 2
        /\ calls[i].kind = "QueueTimeout" => calls[i].output = 7
        /\ calls[i].kind = "QueueItemCancelled" => calls[i].output = 1

\* C26: what the code does: every error of these kinds is an error without
\* exit code and ends the process with 1
C26_TheseErrorsExitOne ==
    \A i \in DOMAIN calls :
        calls[i].kind \in ValidationKinds \cup {"QueueTimeout", "QueueItemCancelled"}
            => ~calls[i].err.isExit /\ calls[i].output = 1

\* the queue wait timed out and the process ended with 1
C26_Witness ==
    \E i \in DOMAIN calls : calls[i].kind = "QueueTimeout" /\ calls[i].output = 1


-----------------------------------------------------------------------------
(* The ways out of the polling loop of monitorRun *)

\* C27: a non-2xx answer of the status endpoint while the build runs is an
\* error of the status endpoint: monitorRun cancels the follower and
\* returns an error, and never returns the result SUCCESS because of it
C27_Non2xxStatusIsAnError ==
    (monitor.pc = "done" /\ monitor.polls = "non-2xx") =>
        /\ monitor.ret.err # NoError
        /\ monitor.ret.result # "SUCCESS"

\* the status endpoint answered outside 2xx while the build was running,
\* and monitorRun returned SUCCESS without an error
C27_Witness ==
    /\ monitor.pc = "done"
    /\ monitor.polls = "non-2xx"
    /\ building
    /\ monitor.ret = [result |-> "SUCCESS", err |-> NoError]

\* C28: on each way out of the polling loop, after a status error and after
\* the build was seen finished, a follower that was started is cancelled
\* and its result is received exactly once; the follower's send never finds
\* the channel full
C28_FollowerJoinedOnce ==
    /\ Len(logErrCh) <= logErrChCap
    /\ monitor.received <= 1
    /\ follower.pc = "exited" => Len(logErrCh) + monitor.received = 1
    /\ follower.pc # "exited" => logErrCh = <<>> /\ monitor.received = 0
    /\ (monitor.pc = "done" /\ streamLogs) =>
           /\ logCtxDone
           /\ follower.pc = "exited"
           /\ monitor.received = 1
           /\ logErrCh = <<>>
    /\ ~streamLogs => follower.pc = "idle"

\* the status request failed while the follower was waiting for its log
\* request; the follower was cancelled and its result taken, and the
\* command's own context is untouched
C28_Witness ==
    /\ monitor.pc = "done"
    /\ monitor.polls = "error"
    /\ streamLogs
    /\ ~ctxDone
    /\ logCtxDone
    /\ follower.pc = "exited"
    /\ follower.left.cancelled
    /\ monitor.received = 1

\* C29: once the command's context is cancelled while the build runs, the
\* polling loop takes no further "still building" answer and sleeps no more
C29_CancellationStopsStatusPolling ==
    [][ctxDone => ~(\E beat \in BOOLEAN : MonitorRunning(beat))]_vars

\* the context is cancelled, the build runs, and a heartbeat was written by
\* a loop that is still polling
C29_Witness ==
    /\ ctxDone
    /\ building
    /\ monitor.pc = "poll"
    /\ Kinds("heartbeat") # {}


-----------------------------------------------------------------------------
(* The crumb issuer that is not there *)

\* C30: once the crumb issuer answered 404 or 405, the engine stays marked
\* and holds no crumb; every later ensureCrumb returns without a crumb and
\* without a request to the crumb issuer, also after a rejected request
\* made clearCrumb run
C30_UnsupportedIsPermanent ==
    /\ [](crumbUnsupported => crumb = NoCrumb /\ Fetching = {})
    /\ [][/\ crumbUnsupported => crumbUnsupported'
          /\ \A t \in Tasks :
                 crumbUnsupported /\ task[t].pc = "ensure" /\ task'[t].pc # "ensure"
                     => /\ task'[t].pc = "exec"
                        /\ task'[t].hdr = task[t].hdr
                        /\ issuer' = issuer]_vars

\* the errors ensureCrumb returns for a fetch that failed, an issuer status
\* other than 200, 404 and 405, and an answer without crumb or field
CrumbErrors ==
    {"fetch crumb", "crumb issuer error", "crumb issuer returned empty data"}

\* C40: the engine never holds a crumb together with the unsupported flag,
\* a crumb it holds has a field name and a value, and an ensureCrumb that
\* ends with an error leaves crumb and flag as they were
C40_CrumbCacheConsistent ==
    /\ [](/\ ~(crumb # NoCrumb /\ crumbUnsupported)
          /\ crumb # NoCrumb => (crumb.Field # "" /\ crumb.Value # ""))
    /\ [][\A t \in Tasks :
              (task[t].pc = "fetch" /\ task'[t].pc = "done")
                  => /\ task'[t].ret.err \in CrumbErrors
                     /\ crumb' = crumb
                     /\ crumbUnsupported' = crumbUnsupported]_vars

\* a request went out with a cached crumb and was rejected, clearCrumb ran,
\* the issuer then answered 404 or 405: the flag is set and no crumb is
\* held, while another call has ended on an issuer answer without data
C40_Witness ==
    /\ crumbUnsupported
    /\ crumb = NoCrumb
    /\ \E t \in Tasks :
           /\ task[t].pc = "exec"
           /\ task[t].firstSent
           /\ ~task[t].allowRetry
    /\ \E t \in Tasks :
           /\ task[t].pc = "done"
           /\ task[t].ret.err = "crumb issuer returned empty data"

\* the issuer answered 404 or 405, a request without crumb was rejected,
\* clearCrumb ran, and the retry has passed ensureCrumb without a crumb
C30_Witness ==
    /\ crumbUnsupported
    /\ ~issuer.counted
    /\ \E t \in Tasks :
           /\ task[t].pc = "exec"
           /\ ~task[t].allowRetry
           /\ task[t].execs = 1
           /\ ~task[t].firstSent
           /\ task[t].hdr = NoCrumb


-----------------------------------------------------------------------------
(* The tree query of jk run ls: executeRunList decides what the pipeline   *)
(* needs and buildRunListTree shapes the query accordingly.                *)

\* the text of a key up to and including its first dot
KeyPrefix(key) ==
    CASE key \in {"param.ENV", "param.TOKEN"} -> "param."
      [] key \in {"cause.type", "cause.user"} -> "cause."
      [] key = "artifact.name" -> "artifact."
      [] OTHER -> ""

\* strings.HasPrefix(key, prefix) for the prefixes param., cause., artifact.
HasPrefix(key, prefix) == KeyPrefix(key) = prefix

\* filter.RequiresParameters, RequiresCauses, RequiresArtifacts
RequiresPrefix(filters, prefix) ==
    \E i \in DOMAIN filters : HasPrefix(filters[i].Key, prefix)

\* selectFieldRegistry: what a selected field requires
selectionRequirement(field) ==
    [requiresParameters |-> field = "parameters",
     requiresArtifacts |-> field = "artifacts",
     requiresCauses |-> field = "causes"]

selectionRequiresParameters(fields) ==
    \E i \in DOMAIN fields : selectionRequirement(fields[i]).requiresParameters

selectionRequiresArtifacts(fields) ==
    \E i \in DOMAIN fields : selectionRequirement(fields[i]).requiresArtifacts

selectionRequiresCauses(fields) ==
    \E i \in DOMAIN fields : selectionRequirement(fields[i]).requiresCauses

requireArtifacts(opts) ==
    \/ RequiresPrefix(opts.Filters, "artifact.")
    \/ selectionRequiresArtifacts(opts.SelectFields)
    \/ HasPrefix(opts.GroupBy, "artifact.")

requireParams(opts) ==
    \/ RequiresPrefix(opts.Filters, "param.")
    \/ selectionRequiresParameters(opts.SelectFields)
    \/ HasPrefix(opts.GroupBy, "param.")
    \/ opts.WithMeta

\* a query that never asks for causes
requireCausesNever(opts) == FALSE

requireCauses(opts) ==
    \/ RequiresPrefix(opts.Filters, "cause.")
    \/ selectionRequiresCauses(opts.SelectFields)
    \/ HasPrefix(opts.GroupBy, "cause.")

\* buildRunListTree: the fields asked of each action and of each build
buildRunListTree(fetchLimit, includeArtifacts, includeParameters, includeCauses) ==
    [actionsFields |->
         <<"lastBuiltRevision[SHA1,branch[name]]", "buildsByBranchName[*]", "remoteUrls">>
         \o (IF includeParameters THEN <<"parameters[name,value]">> ELSE <<>>)
         \o (IF includeCauses
             THEN <<"causes[shortDescription,userId,userName,_class]">> ELSE <<>>),
     fields |->
         <<"number", "url", "result", "building", "timestamp", "duration",
           "estimatedDuration", "queueId", "actions", "changeSet">>
         \o (IF includeArtifacts THEN <<"artifacts[fileName,relativePath,size]">>
             ELSE <<>>),
     limit |-> fetchLimit]

\* executeRunList up to the request: the query it sends
RunListQuery(opts) ==
    buildRunListTree(opts.Limit + runListHeadroom, requireArtifacts(opts),
                     requireParams(opts), requireCauses(opts))

TreeFilterKeys == {"result", "param.ENV", "cause.type", "artifact.name"}

TreeFilters ==
    {<<>>} \cup {<<[Key |-> k, Operator |-> "=", Value |-> "5"]>> : k \in TreeFilterKeys}
    \cup {<<[Key |-> "result", Operator |-> "=", Value |-> "5"],
            [Key |-> k, Operator |-> "=", Value |-> "5"]>> : k \in TreeFilterKeys}

TreeSelections ==
    {<<>>, <<"number">>, <<"parameters">>, <<"causes">>, <<"artifacts">>,
     <<"number", "parameters">>, <<"artifacts", "causes">>}

TreeOptions ==
    [Limit : {1}, Filters : TreeFilters, SelectFields : TreeSelections,
     GroupBy : {"", "result", "param.ENV", "cause.user", "artifact.name"},
     WithMeta : BOOLEAN]

TreeCall(opts) ==
    /\ calls = <<>>
    /\ calls' = <<[fn |-> "buildRunListTree", input |-> opts,
                   output |-> RunListQuery(opts)]>>
    /\ UNCHANGED notPure

NextTree ==
    /\ calls = <<>>
    /\ \E opts \in TreeOptions : TreeCall(opts)

SpecTree == InitExitCode /\ [][NextTree]_vars

\* a filter, a selected field or the group key of the options refers to
\* parameters, causes, artifacts
Referenced(opts, prefix, field) ==
    \/ \E i \in DOMAIN opts.Filters : KeyPrefix(opts.Filters[i].Key) = prefix
    \/ \E i \in DOMAIN opts.SelectFields : opts.SelectFields[i] = field
    \/ KeyPrefix(opts.GroupBy) = prefix

Asks(tree, what) ==
    \/ \E i \in DOMAIN tree.actionsFields : tree.actionsFields[i] = what
    \/ \E i \in DOMAIN tree.fields : tree.fields[i] = what

AsksCausesAndArtifactsIffReferenced(c) ==
    /\ Asks(c.output, "causes[shortDescription,userId,userName,_class]")
           <=> Referenced(c.input, "cause.", "causes")
    /\ Asks(c.output, "artifacts[fileName,relativePath,size]")
           <=> Referenced(c.input, "artifact.", "artifacts")

\* C37 (as stated): the tree query asks for parameters exactly when a
\* filter, a selected field or the group key refers to parameters, for
\* causes exactly when one of them refers to causes, and for artifacts
\* exactly when one of them refers to artifacts
C37_TreeAsksIffReferenced ==
    \A i \in DOMAIN calls :
        /\ Asks(calls[i].output, "parameters[name,value]")
               <=> Referenced(calls[i].input, "param.", "parameters")
        /\ AsksCausesAndArtifactsIffReferenced(calls[i])

\* C37, amended: the same for causes and artifacts; parameters are asked for
\* exactly when one of the three refers to them or --with-meta is given
C37_TreeAsksIffReferencedOrMeta ==
    \A i \in DOMAIN calls :
        /\ Asks(calls[i].output, "parameters[name,value]")
               <=> (Referenced(calls[i].input, "param.", "parameters")
                       \/ calls[i].input.WithMeta)
        /\ AsksCausesAndArtifactsIffReferenced(calls[i])

\* grouped by cause.user with a filter on a parameter and no metadata: the
\* query asks for parameters and causes and not for artifacts
C37_Witness ==
    \E i \in DOMAIN calls :
        /\ calls[i].input.GroupBy = "cause.user"
        /\ ~calls[i].input.WithMeta
        /\ calls[i].input.SelectFields = <<>>
        /\ Referenced(calls[i].input, "param.", "parameters")
        /\ Asks(calls[i].output, "parameters[name,value]")
        /\ Asks(calls[i].output, "causes[shortDescription,userId,userName,_class]")
        /\ ~Asks(calls[i].output, "artifacts[fileName,relativePath,size]")


-----------------------------------------------------------------------------
(* What jk run ls shows of a run's parameters: the selected field          *)
(* "parameters" of an item, the value a run is grouped by, and the sample  *)
(* values of the metadata.                                                 *)

\* the characters of the parameter names and values in use
NameChars(name) ==
    CASE name = "TOKEN" -> <<"T", "O", "K", "E", "N">>
      [] name = "ENV" -> EnvText
      [] OTHER -> <<>>

ValueChars(value) ==
    CASE value = "dev" -> <<"d", "e", "v">>
      [] value = "prod" -> <<"p", "r", "o", "d">>
      [] value = "<nil>" -> <<"<", "n", "i", "l", ">">>
      [] OTHER -> <<>>

\* buildRunListItem, case "parameters": a copy of the inspection's
\* parameters when there are any
ItemParameters(run, selectFields) ==
    IF (\E i \in DOMAIN selectFields : selectFields[i] = "parameters")
           /\ DOMAIN run.Parameters # {}
    THEN run.Parameters
    ELSE EmptyMap

\* metadataCollector.observe and metadata for one run: the sample values
\* by parameter name
RunSamples(run, withMeta) ==
    IF ~withMeta THEN EmptyMap
    ELSE [name \in DOMAIN run.Parameters |->
             ObserveOne(newMetadataCollector(TRUE).parameters, NameChars(name),
                        ValueChars(run.Parameters[name])).Samples]

\* processRunList and assembleRunListOutput for one run that matches
RunOutput(actions, opts) ==
    LET run == inspectRun(SummaryWith(actions), requireParams(opts), requireCauses(opts))
    IN  [Parameters |-> run.Parameters,
         Fields |-> ItemParameters(run, opts.SelectFields),
         GroupValue |-> IF opts.GroupBy # "" THEN resolveGroupValue(run, opts.GroupBy)
                        ELSE "",
         Samples |-> RunSamples(run, opts.WithMeta)]

OutputOptions ==
    [Filters : {<<>>}, SelectFields : {<<>>, <<"parameters">>},
     GroupBy : {"", "param.ENV", "param.TOKEN"}, WithMeta : BOOLEAN]

OutputActions ==
    {<<ParametersAction(<<e>>)>> : e \in ParamEntryInputs}
    \cup {<<ParametersAction(<<e, f>>)>> : e, f \in ParamEntryInputs}

RunOutputCall(actions, opts) ==
    /\ calls = <<>>
    /\ calls' = <<[fn |-> "run ls", input |-> [actions |-> actions, opts |-> opts],
                   output |-> RunOutput(actions, opts)]>>
    /\ UNCHANGED notPure

NextRunOutput ==
    /\ calls = <<>>
    /\ \E actions \in OutputActions, opts \in OutputOptions :
           RunOutputCall(actions, opts)

SpecRunOutput == InitExitCode /\ [][NextRunOutput]_vars

\* C31: nothing jk run ls puts out holds the value of a parameter whose
\* name is likely a secret: not the selected parameters of an item, not the
\* value a run is grouped by, not the sample values of the metadata
C31_NoSecretValueInOutput ==
    \A i \in DOMAIN calls :
        LET o == calls[i].output
        IN  /\ \A name \in DOMAIN o.Fields : ~IsLikelySecret(NameChars(name))
            /\ \A name \in DOMAIN o.Parameters :
                   IsLikelySecret(NameChars(name))
                       /\ calls[i].input.opts.GroupBy = ParamKey(name)
                       => o.GroupValue # o.Parameters[name]
            /\ \A name \in DOMAIN o.Samples :
                   IsLikelySecret(NameChars(name)) => o.Samples[name] = {}

\* C31: what holds: the sample values of the metadata leave out the
\* parameters whose name is likely a secret
C31_NoSecretValueInSamples ==
    \A i \in DOMAIN calls :
        \A name \in DOMAIN calls[i].output.Samples :
            IsLikelySecret(NameChars(name)) => calls[i].output.Samples[name] = {}

\* a run with TOKEN = prod, listed with --select parameters and grouped by
\* param.TOKEN: the item's parameters and the group value hold prod, the
\* metadata have no sample for TOKEN
C31_Witness ==
    \E i \in DOMAIN calls :
        /\ calls[i].input.opts.SelectFields = <<"parameters">>
        /\ calls[i].input.opts.GroupBy = "param.TOKEN"
        /\ calls[i].input.opts.WithMeta
        /\ "TOKEN" \in DOMAIN calls[i].output.Fields
        /\ calls[i].output.Fields["TOKEN"] = "prod"
        /\ calls[i].output.GroupValue = "prod"
        /\ calls[i].output.Samples["TOKEN"] = {}


-----------------------------------------------------------------------------
(* The ways a snapshot ends *)

\* C32: a snapshot that returns without error returns truncated = false
\* exactly when its last response did not announce more data, and
\* truncated = true when it stopped on an empty chunk with more data
\* announced, with maxBytes or more read, or at the cap of the loop
C32_TruncatedIffMoreDataLeft ==
    (snap.pc = "done" /\ snap.ret.err = NoError) =>
        /\ ~snap.ret.truncated <=> (snap.resp.kind = "chunk" /\ ~snap.resp.more)
        /\ snap.ret.truncated =>
               \/ snap.resp.kind = "chunk" /\ snap.resp.more /\ snap.resp.size = 0
               \/ snap.resp.kind = "chunk" /\ snap.resp.more
                      /\ snap.total >= EffectiveMaxBytes(snap.given)
               \/ snap.i = snapshotCap
        /\ (snap.resp.kind = "chunk" /\ snap.resp.more /\ snap.resp.size = 0)
               => snap.ret.truncated /\ snap.ret.why = "empty"

\* a chunk was written, then an empty chunk came with more data announced:
\* the snapshot is truncated below maxBytes
C32_Witness ==
    /\ snap.pc = "done"
    /\ snap.ret = [truncated |-> TRUE, err |-> NoError, why |-> "empty"]
    /\ snap.written > 0
    /\ snap.total < snap.maxBytes
    /\ snap.i = 1

\* C33: a snapshot that observes the cancellation returns without an
\* error, as the follower does
C33_CancelledSnapshotReturnsNil ==
    snap.pc = "done" => snap.ret.err # ContextCanceled

\* the context was cancelled after the first chunk and the snapshot
\* returned the context's error
C33_Witness ==
    /\ snap.pc = "done"
    /\ ctxDone
    /\ snap.ret.why = "ctx"
    /\ snap.ret.err = ContextCanceled
    /\ snap.written > 0

\* C34: every response body the log streamer obtained is closed before the
\* next request and before the return, on the 416 path and the error paths
\* too
C34_EveryBodyClosed == snap.open = 0

\* C34: what holds: a close error is joined to the read error, and a body
\* that is read is closed
C34_CloseErrorJoined ==
    (snap.pc = "done" /\ snap.resp.kind \in {"readerr", "closeerr", "readcloseerr"}) =>
        snap.ret.err =
            CASE snap.resp.kind = "readcloseerr" ->
                     "read log chunk: read failed; close log stream"
              [] snap.resp.kind = "closeerr" -> "read log chunk: close log stream"
              [] OTHER -> "read log chunk: read failed"

\* a 416 was answered, the next request was sent and answered with the end
\* of the log: the snapshot returned with the body of the 416 still open
C34_Witness ==
    /\ snap.pc = "done"
    /\ snap.ret.why = "end"
    /\ snap.open = 1
    /\ snap.asked = 2


-----------------------------------------------------------------------------
(* The depth of the listing requests of a search *)

\* C38: no listing request of a search is for a node more than maxDepth
\* levels below the folder the search started from, the listings of matched
\* multibranch projects included
C38_NoListingBelowMaxDepth ==
    \A i \in DOMAIN disc.requests : disc.requests[i].depth <= disc.maxDepth

\* C38: what holds: walk lists no node deeper than maxDepth, and
\* walkAndAddAllBranches lists a matched multibranch project at most one
\* level deeper; no path is listed twice by walk
C38_ListingDepthBounded ==
    /\ \A i \in DOMAIN disc.requests :
           disc.requests[i].depth <=
               IF disc.requests[i].kind = "walk" THEN disc.maxDepth
               ELSE disc.maxDepth + 1
    /\ \A i, j \in DOMAIN disc.requests :
           (i # j /\ disc.requests[i].kind = "walk" /\ disc.requests[j].kind = "walk")
               => disc.requests[i].path # disc.requests[j].path

\* a search from the root with maxDepth 1 and the glob "ada" has listed the
\* multibranch project Tools/ada, two levels down, and returned its branches
C38_Witness ==
    /\ disc.pc = "done"
    /\ disc.ret.err = NoError
    /\ disc.folder = RootPath
    /\ disc.maxDepth = 1
    /\ \E i \in DOMAIN disc.requests :
           disc.requests[i] = [kind |-> "branches", path |-> <<ToolsName, AdaName>>,
                               depth |-> 2]
    /\ <<ToolsName, AdaName, MasterName>> \in {disc.ret.results[i] : i \in DOMAIN disc.ret.results}


====
